---------------------------- MODULE Spec2Model ----------------------------
(***************************************************************************)
(* A model of the simple orchestrator of                                   *)
(* src/agents/MULTI_AGENT_ORCHESTRATOR.py: the agent registry, the task    *)
(* queue, the capability matcher and the single-pass assignment loop.      *)
(*                                                                         *)
(* Python's None is modelled by a sentinel of the field's type: task       *)
(* references are indices into the queue (a task dict is one object shared *)
(* by the queue and by the agent that holds it, and tasks are never        *)
(* removed), so index 0 is "no task"; a missing "assigned_agent" key and a *)
(* failed capability lookup are the string "None".                         *)
(***************************************************************************)
EXTENDS Naturals, Sequences, FiniteSets, TLC

\* ------------------------------------------------------------------ bounds
\* Longest task queue explored.
MaxTasks == 3
\* Largest clock reading explored (datetime.now() is read as a logical clock).
MaxTime == 1

\* --------------------------------------------------------------- sentinels
NoTask == 0
NoAgent == 0
None == "None"

\* ---------------------------------------------------------- configurations
\* _get_default_config: the hard-coded fallback configuration.
DefaultConfig ==
    [ agents |-> <<
        [name |-> "DocumentationAgent",
         capabilities |-> {"create_documentation", "update_templates"}],
        [name |-> "CodeReviewAgent",
         capabilities |-> {"review_code", "enforce_standards"}],
        [name |-> "TestingAgent",
         capabilities |-> {"create_tests", "run_tests", "analyze_coverage"}],
        [name |-> "MonitoringAgent",
         capabilities |-> {"monitor_performance", "log_metrics"}] >>,
      task_priorities |->
        [ immediate |-> <<"create_documentation_framework",
                          "establish_code_review_process">>,
          short_term |-> <<"implement_basic_testing",
                           "setup_performance_monitoring">>,
          medium_term |-> <<"expand_documentation", "formalize_code_review",
                            "improve_test_coverage">> ],
      capability_map |->
        [ create_documentation_framework |-> "create_documentation",
          establish_code_review_process |-> "review_code",
          implement_basic_testing |-> "create_tests",
          setup_performance_monitoring |-> "monitor_performance" ] ]

\* A configuration file as load_configuration may read it: two agents share
\* the capability review_code, and two share create_tests.
PoolConfig ==
    [ agents |-> <<
        [name |-> "ReviewerA", capabilities |-> {"review_code"}],
        [name |-> "ReviewerB", capabilities |-> {"review_code", "create_tests"}],
        [name |-> "Tester", capabilities |-> {"create_tests"}] >>,
      task_priorities |->
        [ immediate |-> <<"establish_code_review_process",
                          "implement_basic_testing">>,
          short_term |-> <<"formalize_code_review">>,
          medium_term |-> << >> ],
      capability_map |->
        [ establish_code_review_process |-> "review_code",
          implement_basic_testing |-> "create_tests" ] ]

\* The configurations a run may start from (the file is missing or holds one
\* of these).
Configs == {DefaultConfig, PoolConfig}

Tiers == {"immediate", "short_term", "medium_term"}

VARIABLES
    config,               \* self.config
    agents,               \* self.agents: the registry, in registration order
    tasks,                \* self.tasks: the queue, in insertion order
    now,                  \* the clock datetime.now() reads
    pc,                   \* where control is: "idle" between calls, else a line
    idx,                  \* position of `for task in self.tasks`
    required_capability,  \* local of _assign_tasks
    agent,                \* local of _assign_tasks (registry index, 0 = None)
    call,                 \* the call in progress or last returned: its name,
                          \* the agent it is made on and the task that agent
                          \* held when it was made
    start                 \* during a pass: agents and tasks as the pass found them

vars == <<config, agents, tasks, now, pc, idx, required_capability, agent,
          call, start>>

\* The construction of an orchestrator from its configuration file
\* (specification SpecConfig).
VARIABLES
    config_file,          \* the file at self.config_file: does it exist, and
                          \* its text as the JSON tokens json.load reads
    orchestrator,         \* the MultiAgentOrchestrator object: its config,
                          \* agents and tasks; NoObject before construction
    io,                   \* the last call on the file: its name, the file it
                          \* found, how its save_configuration ended, and
                          \* whether it raised
    written               \* the configuration a save_configuration wrote to
                          \* the file as it is now; PyNone if the file is not
                          \* the work of a completed save

configVars == <<config_file, orchestrator, io, written>>

\* The enhanced orchestrator of ENHANCED_MULTI_AGENT_ORCHESTRATOR.py
\* (specifications SpecLoop and SpecScore).
VARIABLES
    enhanced,             \* the EnhancedMultiAgentOrchestrator object: agents,
                          \* tasks, task_queue, communication_hub,
                          \* performance_metrics (dicts in insertion order)
                          \* and running
    loop,                 \* the coroutine orchestrate_agents: where it is,
                          \* the steps the current iteration has entered, the
                          \* step whose exception ended the iteration before,
                          \* the number of tasks created so far, and the
                          \* locals of intelligent_task_distribution (with
                          \* the agents' statuses as the pass found them)
    pick                  \* the last call of find_optimal_agent_for_task: its
                          \* task, the agents it was given, the scores it
                          \* computed and the agent it returned

enhancedVars == <<enhanced, loop, pick>>

\* The memory server of mcp-servers/mcp_memory_persistence_server.py
\* (specification SpecMcp).
VARIABLES
    stdin,                \* sys.stdin: the lines written to it and not yet
                          \* read, and whether the writer has closed it
    stdout,               \* sys.stdout: the lines printed so far
    memory,               \* the table memory_storage of the database: for
                          \* each key, its row or NoRow
    server                \* main(): where the loop is, the line it holds,
                          \* every line readline has returned so far, and
                          \* how the loop was left

mcpVars == <<stdin, stdout, memory, server>>

\* The standalone agent classes of agents/CodeReviewAgent.py,
\* DocumentationAgent.py, TestingAgent.py and MonitoringAgent.py
\* (specification SpecAgents).
VARIABLES
    standalone,           \* one agent object: its class, self.status and
                          \* self.current_task (the task's name, or None)
    directories,          \* the directories of the working directory that
                          \* exist, among those the handlers write to
    standalone_call       \* the last call on the object: the method, the
                          \* name of the task passed and whether the call
                          \* returned or raised

agentVars == <<standalone, directories, standalone_call>>

\* Calls of the memory server's methods (specification SpecMemory, which
\* also uses the table `memory`).
VARIABLES
    memory_call           \* the last call: the method, its key, the value
                          \* or default passed, what it returned, and for
                          \* each key the value of the last successful
                          \* store_memory not followed by a delete

memoryVars == <<memory_call>>

\* RealTimePerformanceMonitor (specifications SpecCollect, SpecMonitor and
\* FairSpecMonitor).
VARIABLES
    monitor,              \* the monitor object: monitoring_active,
                          \* metrics_history, current_metrics, alerts,
                          \* system_health_score
    coroutines,           \* for each monitoring coroutine where it is
                          \* suspended, and what it resumes with
    gather,               \* where start_monitoring stands
    executions,           \* every _execute_optimization_action call that
                          \* returned: who called, the action, the outcome
    varied                \* the metric whose samples are drawn over its
                          \* whole range in this run

monitorVars == <<monitor, coroutines, gather, executions, varied>>

\* SimpleClaudeMonitor (specification SpecTrack).
VARIABLES
    usage_stats,          \* self.usage_stats
    tool_usage,           \* the rows of the table tool_usage, as the shared
                          \* connection sees them
    lock,                 \* self.lock: the thread that holds it, 0 when free
    threads,              \* for each thread where it is in track_request,
                          \* its arguments and its local values
    tracked               \* the rows tool_usage had when the monitor was
                          \* constructed, and the arguments of the calls
                          \* that have returned

trackVars == <<usage_stats, tool_usage, lock, threads, tracked>>

\* Every variable of the module.
allVars == <<vars, configVars, enhancedVars, mcpVars, agentVars, memoryVars,
             monitorVars, trackVars>>

\* What each specification leaves alone.
frameOfSpec == <<configVars, enhancedVars, mcpVars, agentVars, memoryVars,
                 monitorVars, trackVars>>
frameOfSpecConfig == <<vars, enhancedVars, mcpVars, agentVars, memoryVars,
                       monitorVars, trackVars>>
frameOfSpecLoop == <<vars, configVars, mcpVars, agentVars, memoryVars,
                     monitorVars, trackVars>>
frameOfSpecMcp == <<vars, configVars, enhancedVars, agentVars, memoryVars,
                    monitorVars, trackVars>>
frameOfSpecAgents == <<vars, configVars, enhancedVars, mcpVars, memoryVars,
                       monitorVars, trackVars>>
frameOfSpecMonitor == <<vars, configVars, enhancedVars, mcpVars, agentVars,
                        memoryVars, trackVars>>
frameOfSpecTrack == <<vars, configVars, enhancedVars, mcpVars, agentVars,
                      memoryVars, monitorVars>>
frameOfSpecMemory == <<vars, configVars, enhancedVars, agentVars, stdin,
                       stdout, server, monitorVars, trackVars>>

\* Python's None, as a value of the JSON data model below.
PyNone == [t |-> "None"]
\* No file at self.config_file.
Missing == [exists |-> FALSE, text |-> << >>]
\* No orchestrator has been constructed.
NoObject == [config |-> PyNone, agents |-> << >>, tasks |-> << >>]
NoIo == [op |-> "none", found |-> Missing, save |-> "not_called",
         raised |-> FALSE]

\* EnhancedMultiAgentOrchestrator.__init__: no agents, no tasks, not running.
NewEnhanced ==
    [ agents |-> << >>, tasks |-> << >>, task_queue |-> << >>,
      communication_hub |-> << >>, performance_metrics |-> << >>,
      running |-> FALSE ]
\* orchestrate_agents has not been called.
NotStarted ==
    [ pc |-> "not_started", steps |-> << >>, last_error |-> "",
      created |-> 0, available_agents |-> << >>, queue_copy |-> << >>,
      k |-> 0, at_start |-> << >> ]
\* find_optimal_agent_for_task has not been called.
NoPick == [task |-> NoTask, available_agents |-> << >>, scores |-> << >>,
           best_agent |-> None]

\* No enhanced orchestrator is run.
NoEnhancedRun ==
    /\ enhanced = NewEnhanced
    /\ loop = NotStarted
    /\ pick = NoPick

\* Nothing is constructed while the orchestrator of Spec runs.
NoConstruction ==
    /\ config_file = Missing
    /\ orchestrator = NoObject
    /\ io = NoIo
    /\ written = PyNone

\* main() of the memory server has not been called.
ServerNotStarted == [pc |-> "not_started", line |-> << >>, read |-> << >>,
                     left_by |-> "none"]
\* No memory server is run.
NoMcpServer ==
    /\ stdin = [lines |-> << >>, closed |-> FALSE]
    /\ stdout = << >>
    /\ memory = << >>
    /\ server = ServerNotStarted

\* No standalone agent object is made.
NoStandaloneAgent ==
    /\ standalone = [class |-> "none", status |-> "idle",
                     current_task |-> None]
    /\ directories = {}
    /\ standalone_call = [op |-> "none", name |-> None, outcome |-> "none"]

\* No method of the memory server is called directly.
NoMemoryCall ==
    memory_call = [op |-> "none"]

\* No RealTimePerformanceMonitor exists.
NoMonitor ==
    /\ monitor = [monitoring_active |-> FALSE]
    /\ coroutines = << >>
    /\ gather = "not_called"
    /\ executions = << >>
    /\ varied = None

\* No SimpleClaudeMonitor exists.
NoSimpleMonitor ==
    /\ usage_stats = << >>
    /\ tool_usage = << >>
    /\ lock = 0
    /\ threads = << >>
    /\ tracked = << >>

\* ------------------------------------------------------------------- Agent
\* Agent.__init__
NewAgent(name, capabilities, t) ==
    [ name |-> name, capabilities |-> capabilities, status |-> "idle",
      current_task |-> NoTask, last_updated |-> t ]

\* assign_task without line 34: the task is recorded, the status is not.
Agent_assign_task_keeps_status(a, task, t) ==
    [a EXCEPT !.current_task = task, !.last_updated = t]

\* Agent.assign_task
Agent_assign_task(a, task, t) ==
    [a EXCEPT !.current_task = task, !.status = "working", !.last_updated = t]

\* complete_task without line 43: the task is dropped, the status stays.
Agent_complete_task_keeps_status(a, t) ==
    IF a.current_task # NoTask
    THEN [a EXCEPT !.current_task = NoTask, !.last_updated = t]
    ELSE a

\* complete_task without the test of line 40: the agent is reset, and its
\* timestamp rewritten, whether or not it holds a task.
Agent_complete_task_unguarded(a, t) ==
    [a EXCEPT !.current_task = NoTask, !.status = "idle", !.last_updated = t]

\* Agent.complete_task
Agent_complete_task(a, t) ==
    IF a.current_task # NoTask
    THEN [a EXCEPT !.current_task = NoTask, !.status = "idle",
                   !.last_updated = t]
    ELSE a

\* ------------------------------------------------------------ orchestrator
\* initialize_agents: one Agent per configured entry, in order.
initialize_agents(cfg, t) ==
    [ i \in 1..Len(cfg.agents) |->
        NewAgent(cfg.agents[i].name, cfg.agents[i].capabilities, t) ]

\* The task dict _add_priority_tasks builds.
NewTask(name, priority) ==
    [ name |-> name, priority |-> priority, status |-> "pending",
      assigned_agent |-> None ]

\* add_task
add_task(q, task) == Append(q, task)

\* _add_priority_tasks: one add_task per immediate task name, in order.
RECURSIVE add_priority_tasks_from(_, _, _)
add_priority_tasks_from(q, names, k) ==
    IF k > Len(names) THEN q
    ELSE add_priority_tasks_from(add_task(q, NewTask(names[k], "immediate")),
                                 names, k + 1)

add_priority_tasks(cfg, q) ==
    add_priority_tasks_from(q, cfg.task_priorities.immediate, 1)

\* A lookup that falls back to the first capability of the map for a name the
\* map does not hold.
capability_map_get_fallback(cfg, name) ==
    IF name \in DOMAIN cfg.capability_map THEN cfg.capability_map[name]
    ELSE cfg.capability_map[CHOOSE n \in DOMAIN cfg.capability_map : TRUE]

\* capability_map.get(task["name"])
capability_map_get(cfg, name) ==
    IF name \in DOMAIN cfg.capability_map THEN cfg.capability_map[name]
    ELSE None

\* Python truth of the looked-up capability: None and "" are false.
Truthy(c) == c \notin {None, ""}

\* A matcher that prefers the agent registered last.
get_available_agent_last(ags, required) ==
    LET M == { k \in 1..Len(ags) : /\ ags[k].status = "idle"
                                   /\ required \in ags[k].capabilities }
    IN  IF M = {} THEN NoAgent ELSE CHOOSE k \in M : \A m \in M : m <= k

\* A matcher that does not look at the agent's status.
get_available_agent_any_status(ags, required) ==
    LET M == { k \in 1..Len(ags) : required \in ags[k].capabilities }
    IN  IF M = {} THEN NoAgent ELSE CHOOSE k \in M : \A m \in M : k <= m

\* get_available_agent: scan the registry from position k.
RECURSIVE scan_agents(_, _, _)
scan_agents(ags, required, k) ==
    IF k > Len(ags) THEN NoAgent
    ELSE IF ags[k].status = "idle" /\ required \in ags[k].capabilities THEN k
    ELSE scan_agents(ags, required, k + 1)

get_available_agent(ags, required) == scan_agents(ags, required, 1)

\* ------------------------------------------------------------------ Init
\* Outside a pass nothing is remembered of earlier states.
NoSnapshot == [agents |-> << >>, tasks |-> << >>]

Init ==
    /\ config \in Configs
    /\ now = 0
    /\ agents = initialize_agents(config, now)
    /\ tasks = << >>
    /\ pc = "idle"
    /\ idx = 0
    /\ required_capability = None
    /\ agent = NoAgent
    /\ call = [op |-> "__init__", arg |-> NoAgent, held |-> NoTask]
    /\ start = NoSnapshot
    /\ NoConstruction
    /\ NoEnhancedRun
    /\ NoMcpServer
    /\ NoStandaloneAgent
    /\ NoMemoryCall
    /\ NoMonitor
    /\ NoSimpleMonitor


\* ----------------------------------------------------------- public calls
\* The tasks a caller hands to add_task: the task dict _add_priority_tasks
\* would build for the first name of each priority list of the configuration.
InputTasks(cfg) ==
    { NewTask(cfg.task_priorities[tier][1], tier) :
        tier \in { t \in Tiers : Len(cfg.task_priorities[t]) > 0 } }

\* add_task(task), called from outside.
AddTask ==
    /\ pc = "idle"
    /\ Len(tasks) < MaxTasks
    /\ \E task \in InputTasks(config) : tasks' = add_task(tasks, task)
    /\ call' = [op |-> "add_task", arg |-> NoAgent, held |-> NoTask]
    /\ UNCHANGED <<config, agents, now, pc, idx, required_capability, agent,
                   start>>
    /\ UNCHANGED frameOfSpec

\* complete_task that also marks the task the agent held as completed and
\* unassigned in the queue, as the docstring of line 39 suggests.
CompleteTask_marks_task ==
    /\ pc = "idle"
    /\ \E a \in 1..Len(agents) :
         /\ agents' = [agents EXCEPT ![a] = Agent_complete_task(@, now)]
         /\ tasks' = IF agents[a].current_task = NoTask THEN tasks
                     ELSE [tasks EXCEPT ![agents[a].current_task] =
                             [@ EXCEPT !.status = "complete",
                                       !.assigned_agent = None]]
         /\ call' = [op |-> "complete_task", arg |-> a,
                     held |-> agents[a].current_task]
    /\ UNCHANGED <<config, now, pc, idx, required_capability, agent, start>>
    /\ UNCHANGED frameOfSpec

\* agents[a].complete_task(), called from outside.
CompleteTask ==
    /\ pc = "idle"
    /\ \E a \in 1..Len(agents) :
         /\ agents' = [agents EXCEPT ![a] = Agent_complete_task(@, now)]
         /\ call' = [op |-> "complete_task", arg |-> a,
                     held |-> agents[a].current_task]
    /\ UNCHANGED <<config, tasks, now, pc, idx, required_capability, agent,
                   start>>
    /\ UNCHANGED frameOfSpec

\* _assign_tasks(), entered: the pass starts at the head of the queue.
AssignTasksCall ==
    /\ pc = "idle"
    /\ pc' = "for"
    /\ idx' = 1
    /\ call' = [op |-> "_assign_tasks", arg |-> NoAgent, held |-> NoTask]
    /\ start' = [agents |-> agents, tasks |-> tasks]
    /\ UNCHANGED <<config, agents, tasks, now, required_capability, agent>>
    /\ UNCHANGED frameOfSpec

\* orchestrate(), entered: _add_priority_tasks, then the pass of _assign_tasks.
OrchestrateCall ==
    /\ pc = "idle"
    /\ Len(tasks) + Len(config.task_priorities.immediate) <= MaxTasks
    /\ tasks' = add_priority_tasks(config, tasks)
    /\ pc' = "for"
    /\ idx' = 1
    /\ call' = [op |-> "orchestrate", arg |-> NoAgent, held |-> NoTask]
    /\ start' = [agents |-> agents, tasks |-> tasks']
    /\ UNCHANGED <<config, agents, now, required_capability, agent>>
    /\ UNCHANGED frameOfSpec

\* ------------------------------------------------- the pass of _assign_tasks
\* A loop that stays on the task it has just examined.
next_task_same(i) == i

\* `for task in self.tasks`: the next element.
next_task(i) == i + 1

\* Line 182 writing another status.
set_status_complete(task) == [task EXCEPT !.status = "complete"]

\* task["status"] = "assigned"
set_status(task) == [task EXCEPT !.status = "assigned"]

\* Line 183 left out: the task is never given its agent's name.
set_assigned_agent_forgotten(task, a) == task

\* task["assigned_agent"] = agent.name
set_assigned_agent(task, a) == [task EXCEPT !.assigned_agent = a.name]

\* The loop is exhausted: _assign_tasks returns (orchestrate then only reads
\* the state, in report_status, and returns).
PassEnd ==
    /\ pc = "for"
    /\ idx > Len(tasks)
    /\ pc' = "idle"
    /\ idx' = 0
    /\ required_capability' = None
    /\ agent' = NoAgent
    /\ start' = NoSnapshot
    /\ UNCHANGED <<config, agents, tasks, now, call>>
    /\ UNCHANGED frameOfSpec

\* A task that is not pending is passed over.
SkipTask ==
    /\ pc = "for"
    /\ idx <= Len(tasks)
    /\ tasks[idx].status # "pending"
    /\ idx' = next_task(idx)
    /\ UNCHANGED <<config, agents, tasks, now, pc, required_capability, agent,
                   call, start>>
    /\ UNCHANGED frameOfSpec

\* A pending task whose name has no (true) entry in the capability map: a
\* warning, and the next task.
UnknownCapability ==
    /\ pc = "for"
    /\ idx <= Len(tasks)
    /\ tasks[idx].status = "pending"
    /\ ~Truthy(capability_map_get(config, tasks[idx].name))
    /\ required_capability' = capability_map_get(config, tasks[idx].name)
    /\ idx' = next_task(idx)
    /\ UNCHANGED <<config, agents, tasks, now, pc, agent, call, start>>
    /\ UNCHANGED frameOfSpec

\* A pending task with a required capability: the registry is scanned.
FindAgent ==
    /\ pc = "for"
    /\ idx <= Len(tasks)
    /\ tasks[idx].status = "pending"
    /\ Truthy(capability_map_get(config, tasks[idx].name))
    /\ required_capability' = capability_map_get(config, tasks[idx].name)
    /\ agent' = get_available_agent(agents, required_capability')
    /\ pc' = "if_agent"
    /\ UNCHANGED <<config, agents, tasks, now, idx, call, start>>
    /\ UNCHANGED frameOfSpec

\* `if agent:` holds: agent.assign_task(task).
AssignAgent ==
    /\ pc = "if_agent"
    /\ agent # NoAgent
    /\ agents' = [agents EXCEPT ![agent] = Agent_assign_task(@, idx, now)]
    /\ pc' = "set_status"
    /\ UNCHANGED <<config, tasks, now, idx, required_capability, agent, call,
                   start>>
    /\ UNCHANGED frameOfSpec

\* `if agent:` fails: a warning, and the next task.
NoAvailableAgent ==
    /\ pc = "if_agent"
    /\ agent = NoAgent
    /\ idx' = next_task(idx)
    /\ pc' = "for"
    /\ UNCHANGED <<config, agents, tasks, now, required_capability, agent,
                   call, start>>
    /\ UNCHANGED frameOfSpec

SetStatus ==
    /\ pc = "set_status"
    /\ tasks' = [tasks EXCEPT ![idx] = set_status(@)]
    /\ pc' = "set_assigned_agent"
    /\ UNCHANGED <<config, agents, now, idx, required_capability, agent, call,
                   start>>
    /\ UNCHANGED frameOfSpec

SetAssignedAgent ==
    /\ pc = "set_assigned_agent"
    /\ tasks' = [tasks EXCEPT ![idx] = set_assigned_agent(@, agents[agent])]
    /\ idx' = next_task(idx)
    /\ pc' = "for"
    /\ UNCHANGED <<config, agents, now, required_capability, agent, call,
                   start>>
    /\ UNCHANGED frameOfSpec

\* Time passes.
Tick ==
    /\ now < MaxTime
    /\ now' = now + 1
    /\ UNCHANGED <<config, agents, tasks, pc, idx, required_capability, agent,
                   call, start>>
    /\ UNCHANGED frameOfSpec

Next ==
    \/ AddTask
    \/ CompleteTask
    \/ AssignTasksCall
    \/ OrchestrateCall
    \/ PassEnd
    \/ SkipTask
    \/ UnknownCapability
    \/ FindAgent
    \/ AssignAgent
    \/ NoAvailableAgent
    \/ SetStatus
    \/ SetAssignedAgent
    \/ Tick

Spec == Init /\ [][Next]_allVars


\* =================================================================== claims
AgentIds == 1..Len(agents)
TaskIds == 1..Len(tasks)

\* Control is at a point where one iteration of the pass has completed or
\* not begun: outside a call, at the loop head, or at `if agent:`.
BetweenAssignments == pc \in {"idle", "for", "if_agent"}

\* Tasks that went from pending to assigned, and agents that went from idle to
\* working, since the pass in progress started.
NewlyAssigned ==
    { i \in TaskIds : start.tasks[i].status = "pending"
                      /\ tasks[i].status = "assigned" }
NewlyWorking ==
    { a \in AgentIds : start.agents[a].status = "idle"
                       /\ agents[a].status = "working" }

\* C1: in every state between calls, a task is "assigned" if and only if it
\* names an assigned agent that is working and whose current_task is that
\* task.
C1_AssignedIffAgentWorkingOnIt ==
    pc = "idle" =>
        \A i \in TaskIds :
            tasks[i].status = "assigned"
            <=> /\ tasks[i].assigned_agent # None
                /\ \E a \in AgentIds :
                      /\ agents[a].name = tasks[i].assigned_agent
                      /\ agents[a].status = "working"
                      /\ agents[a].current_task = i

\* C2: every assignment of a pass pairs exactly one agent that went from idle
\* to working, holding the task, with exactly one task that went from pending
\* to assigned, naming the agent; nothing else changed; and wherever control
\* is between assignments no agent or task is half assigned.
C2_AssignmentIsPairedAndWhole ==
    /\ pc \in {"for", "if_agent"} =>
          /\ \A i \in NewlyAssigned :
                \E a \in NewlyWorking :
                   /\ agents[a].current_task = i
                   /\ tasks[i].assigned_agent = agents[a].name
                   /\ \A b \in NewlyWorking : agents[b].current_task = i => b = a
          /\ \A a \in NewlyWorking : agents[a].current_task \in NewlyAssigned
          /\ Cardinality(NewlyAssigned) = Cardinality(NewlyWorking)
          /\ \A i \in TaskIds \ NewlyAssigned : tasks[i] = start.tasks[i]
          /\ \A a \in AgentIds \ NewlyWorking : agents[a] = start.agents[a]
    /\ BetweenAssignments =>
          /\ \A a \in AgentIds :
                agents[a].status = "working" =>
                   /\ agents[a].current_task \in TaskIds
                   /\ tasks[agents[a].current_task].status = "assigned"
                   /\ tasks[agents[a].current_task].assigned_agent
                         = agents[a].name
          /\ \A a \in AgentIds :
                agents[a].status = "idle" <=> agents[a].current_task = NoTask
          /\ \A i \in TaskIds :
                tasks[i].status = "assigned" <=> tasks[i].assigned_agent # None

\* C2's case: a pass has run to the end of the queue and made two assignments.
C2_Witness ==
    /\ pc = "for"
    /\ idx > Len(tasks)
    /\ Cardinality(NewlyAssigned) = 2

\* C3: a task whose name the capability map does not hold is pending in every
\* state, names no agent, is held by no agent, and the step that examines it
\* changes no agent.
UnknownName(i) == tasks[i].name \notin DOMAIN config.capability_map

C3_UnknownTaskStaysPending ==
    /\ [](\A i \in TaskIds :
            UnknownName(i) =>
               /\ tasks[i].status = "pending"
               /\ tasks[i].assigned_agent = None
               /\ \A a \in AgentIds : agents[a].current_task # i)
    /\ [][(pc = "for" /\ idx \in TaskIds /\ UnknownName(idx))
            => (agents' = agents /\ tasks' = tasks /\ pc' = "for")]_vars

\* C3's case: a pass has examined a task of unknown name and gone beyond it,
\* with an idle agent in the registry and a later task assigned.
C3_Witness ==
    /\ pc = "for"
    /\ \E i \in TaskIds :
          /\ i < idx
          /\ UnknownName(i)
          /\ \E j \in NewlyAssigned : j > i
    /\ \E a \in AgentIds : agents[a].status = "idle"

\* C4: complete_task on an agent that holds no task changes nothing: not the
\* agent (status, current_task, last_updated), not another agent, not a task.
C4_CompleteWithoutTaskIsNoOp ==
    [][(/\ pc = "idle"
        /\ call'.op = "complete_task"
        /\ now' = now
        /\ agents[call'.arg].current_task = NoTask)
       => (agents' = agents /\ tasks' = tasks)]_vars

\* C4's case: complete_task has returned from an agent that held no task,
\* later than the agent's last_updated, while another agent is working.
C4_Witness ==
    /\ pc = "idle"
    /\ call.op = "complete_task"
    /\ call.held = NoTask
    /\ agents[call.arg].last_updated < now
    /\ \E b \in AgentIds : agents[b].status = "working"

\* The capability the map requires for a task (None when it holds none).
Required(task) == capability_map_get(config, task.name)

\* C5's case: when the pass started, tasks i and j (i earlier) were pending
\* and required the same capability, which agent a alone holds; a was idle;
\* and no other pending task of the queue required a capability of a.
C5_Case(i, j, a) ==
    /\ i < j
    /\ start.tasks[i].status = "pending"
    /\ start.tasks[j].status = "pending"
    /\ Truthy(Required(start.tasks[i]))
    /\ Required(start.tasks[j]) = Required(start.tasks[i])
    /\ { b \in AgentIds : Required(start.tasks[i]) \in agents[b].capabilities }
          = {a}
    /\ start.agents[a].status = "idle"
    /\ \A k \in TaskIds \ {i, j} :
          ~ /\ start.tasks[k].status = "pending"
            /\ Required(start.tasks[k]) \in agents[a].capabilities

C6_Result ==
    /\ tasks = << [name |-> "create_documentation_framework",
                   priority |-> "immediate", status |-> "assigned",
                   assigned_agent |-> "DocumentationAgent"],
                  [name |-> "establish_code_review_process",
                   priority |-> "immediate", status |-> "assigned",
                   assigned_agent |-> "CodeReviewAgent"] >>
    /\ Len(agents) = 4
    /\ agents[1].name = "DocumentationAgent"
    /\ agents[1].status = "working" /\ agents[1].current_task = 1
    /\ agents[2].name = "CodeReviewAgent"
    /\ agents[2].status = "working" /\ agents[2].current_task = 2
    /\ agents[3].name = "TestingAgent"
    /\ agents[3].status = "idle" /\ agents[3].current_task = NoTask
    /\ agents[4].name = "MonitoringAgent"
    /\ agents[4].status = "idle" /\ agents[4].current_task = NoTask

\* C6: with the default configuration, orchestrate entered with an empty
\* queue (hence with every agent idle) ends, when its pass has run to the end
\* of the queue and when it has returned, with both immediate tasks assigned,
\* DocumentationAgent and CodeReviewAgent working on them, and TestingAgent
\* and MonitoringAgent idle.
C6_DefaultOrchestrate ==
    (/\ config = DefaultConfig
     /\ call.op = "orchestrate"
     /\ Len(tasks) = 2
     /\ \/ pc = "idle"
        \/ pc = "for" /\ idx > Len(tasks))
    => C6_Result

C6_Witness ==
    /\ config = DefaultConfig
    /\ call.op = "orchestrate"
    /\ pc = "idle"
    /\ Len(tasks) = 2
    /\ C6_Result

\* The capabilities of the registry, and one no agent holds.
AllCapabilities ==
    UNION { agents[a].capabilities : a \in AgentIds } \cup {"unlisted_capability"}

\* The idle agents that hold capability c.
IdleHolders(c) ==
    { a \in AgentIds : agents[a].status = "idle" /\ c \in agents[a].capabilities }

\* C7: in every state and for every capability, get_available_agent returns
\* no agent exactly when no idle agent holds the capability, and otherwise the
\* idle holder registered first; the pass uses that result.
C7_FirstIdleHolder ==
    /\ \A c \in AllCapabilities :
          LET r == get_available_agent(agents, c)
          IN  /\ r = NoAgent <=> IdleHolders(c) = {}
              /\ IdleHolders(c) # {} =>
                    /\ r \in IdleHolders(c)
                    /\ \A m \in IdleHolders(c) : r <= m
    /\ pc = "if_agent" =>
          /\ agent = NoAgent <=> IdleHolders(required_capability) = {}
          /\ agent # NoAgent =>
                /\ agent \in IdleHolders(required_capability)
                /\ \A m \in IdleHolders(required_capability) : agent <= m

\* C7's case: the pass has scanned the registry for a capability that two
\* idle agents hold, and has the one registered first.
C7_Witness ==
    /\ pc = "if_agent"
    /\ Cardinality(IdleHolders(required_capability)) >= 2
    /\ agent # NoAgent

\* C8: within a pass the position in the queue only moves forward, one task
\* at a time, each return to the loop head being at the next task; no task
\* before the position is changed; and an agent that is working is not
\* changed.
C8_SingleForwardPass ==
    [][(pc # "idle" /\ now' = now) =>
          /\ pc' # "idle" => idx' \in {idx, idx + 1}
          /\ pc' = "for" => idx' = idx + 1
          /\ idx <= Len(tasks) + 1
          /\ \A j \in TaskIds : j < idx => tasks'[j] = tasks[j]
          /\ \A a \in AgentIds :
                agents[a].status = "working" => agents'[a] = agents[a]]_vars

\* C8's case: a pass has run to the end of the queue, has made an assignment,
\* has left pending a task it could not match, and found an agent working
\* when it started.
C8_Witness ==
    /\ pc = "for"
    /\ idx > Len(tasks)
    /\ NewlyAssigned # {}
    /\ \E j \in TaskIds :
          tasks[j].status = "pending" /\ Truthy(Required(tasks[j]))
    /\ \E a \in AgentIds : start.agents[a].status = "working"

C10_CompleteReturnsAgentToIdle ==
    [][(/\ pc = "idle"
        /\ call'.op = "complete_task"
        /\ now' = now
        /\ agents[call'.arg].current_task # NoTask)
       => /\ agents'[call'.arg].current_task = NoTask
          /\ agents'[call'.arg].status = "idle"
          /\ \A c \in agents[call'.arg].capabilities :
                /\ get_available_agent(agents', c) # NoAgent
                /\ get_available_agent(agents', c) <= call'.arg]_vars

\* C10's case: complete_task has returned from an agent that a pass had
\* given a task, and the agent is idle with no current task.
C10_Witness ==
    /\ pc = "idle"
    /\ call.op = "complete_task"
    /\ call.held # NoTask
    /\ tasks[call.held].assigned_agent = agents[call.arg].name
    /\ agents[call.arg].status = "idle"
    /\ agents[call.arg].current_task = NoTask

Str(s) == [t |-> "str", s |-> s]
List(items) == [t |-> "list", items |-> items]
Dict(keys, vals) == [t |-> "dict", keys |-> keys, vals |-> vals]

\* d.get(key, default) on a dict.
py_get(d, key, default) ==
    IF \E k \in 1..Len(d.keys) : d.keys[k] = key
    THEN d.vals[CHOOSE k \in 1..Len(d.keys) : d.keys[k] = key]
    ELSE default

\* d[key] = v on a dict: a key that is present keeps its position.
py_set(d, key, v) ==
    IF \E k \in 1..Len(d.keys) : d.keys[k] = key
    THEN [d EXCEPT !.vals[CHOOSE k \in 1..Len(d.keys) : d.keys[k] = key] = v]
    ELSE Dict(Append(d.keys, key), Append(d.vals, v))

\* One entry of the "agents" list.
AgentEntry(name, capabilities) ==
    Dict(<<"name", "capabilities">>,
         <<Str(name), List([k \in 1..Len(capabilities) |-> Str(capabilities[k])])>>)

StrList(names) == List([k \in 1..Len(names) |-> Str(names[k])])

\* _get_default_config, as the dict the code builds.
DefaultPy ==
    Dict(<<"agents", "task_priorities", "capability_map">>,
      << List(<<
           AgentEntry("DocumentationAgent",
                      <<"create_documentation", "update_templates">>),
           AgentEntry("CodeReviewAgent", <<"review_code", "enforce_standards">>),
           AgentEntry("TestingAgent",
                      <<"create_tests", "run_tests", "analyze_coverage">>),
           AgentEntry("MonitoringAgent",
                      <<"monitor_performance", "log_metrics">>) >>),
         Dict(<<"immediate", "short_term", "medium_term">>,
              << StrList(<<"create_documentation_framework",
                           "establish_code_review_process">>),
                 StrList(<<"implement_basic_testing",
                           "setup_performance_monitoring">>),
                 StrList(<<"expand_documentation", "formalize_code_review",
                           "improve_test_coverage">>) >>),
         Dict(<<"create_documentation_framework",
                "establish_code_review_process", "implement_basic_testing",
                "setup_performance_monitoring">>,
              << Str("create_documentation"), Str("review_code"),
                 Str("create_tests"), Str("monitor_performance") >>) >>)

\* The configuration the orchestrator's unit test writes to its file: two
\* agents, three priority lists, no capability map.
TestPy ==
    Dict(<<"agents", "task_priorities">>,
      << List(<< AgentEntry("TestAgent1", <<"test_capability1">>),
                 AgentEntry("TestAgent2", <<"test_capability2">>) >>),
         Dict(<<"immediate", "short_term", "medium_term">>,
              << StrList(<<"test_task1">>), StrList(<<"test_task2">>),
                 StrList(<<"test_task3">>) >>) >>)

\* A file holding {} (no "agents" key) and a file holding [] (valid JSON that
\* is not a mapping).
EmptyPy == Dict(<< >>, << >>)
ListPy == List(<< >>)

\* ------------------------------------------------------- json.dump: tokens
\* The text of a file is the sequence of JSON tokens in it (white space,
\* which json.dump(indent=2) adds and json.load skips, is left out).
Tok(k) == [k |-> k, s |-> ""]
StrTok(s) == [k |-> "str", s |-> s]

RECURSIVE encode(_), encode_items(_, _), encode_members(_, _, _)
\* The tokens of one value.
encode(v) ==
    CASE v.t = "str" -> <<StrTok(v.s)>>
      [] v.t = "list" ->
            <<Tok("[")>> \o encode_items(v.items, 1) \o <<Tok("]")>>
      [] v.t = "dict" ->
            <<Tok("{")>> \o encode_members(v.keys, v.vals, 1) \o <<Tok("}")>>

encode_items(items, k) ==
    IF k > Len(items) THEN << >>
    ELSE (IF k > 1 THEN <<Tok(",")>> ELSE << >>)
         \o encode(items[k]) \o encode_items(items, k + 1)

encode_members(keys, vals, k) ==
    IF k > Len(keys) THEN << >>
    ELSE (IF k > 1 THEN <<Tok(",")>> ELSE << >>)
         \o <<StrTok(keys[k]), Tok(":")>> \o encode(vals[k])
         \o encode_members(keys, vals, k + 1)

\* An encoder that writes only the first item of every list.
json_dump_first_item(v) ==
    CASE v.t = "str" -> encode(v)
      [] v.t = "list" ->
            encode(List(IF v.items = << >> THEN << >> ELSE <<v.items[1]>>))
      [] v.t = "dict" ->
            encode(Dict(v.keys,
                        [k \in 1..Len(v.vals) |->
                           IF v.vals[k].t = "list" /\ v.vals[k].items # << >>
                           THEN List(<<v.vals[k].items[1]>>)
                           ELSE v.vals[k]]))

\* json.dump(obj, f)
json_dump(v) == encode(v)

\* ---------------------------------------------------- json.load: a parser
\* What json.load raises on text that is not one JSON value.
JSONDecodeError == [t |-> "JSONDecodeError"]

Parsed(v, i) == [ok |-> TRUE, v |-> v, i |-> i]
NotParsed == [ok |-> FALSE, v |-> JSONDecodeError, i |-> 0]

RECURSIVE parse_value(_, _), parse_items(_, _, _), parse_members(_, _, _)
\* The value that starts at token i, and the position after it.
parse_value(toks, i) ==
    IF i > Len(toks) THEN NotParsed
    ELSE CASE toks[i].k = "str" -> Parsed(Str(toks[i].s), i + 1)
           [] toks[i].k = "[" ->
                 IF i + 1 <= Len(toks) /\ toks[i + 1].k = "]"
                 THEN Parsed(List(<< >>), i + 2)
                 ELSE parse_items(toks, i + 1, << >>)
           [] toks[i].k = "{" ->
                 IF i + 1 <= Len(toks) /\ toks[i + 1].k = "}"
                 THEN Parsed(Dict(<< >>, << >>), i + 2)
                 ELSE parse_members(toks, i + 1, Dict(<< >>, << >>))
           [] OTHER -> NotParsed

\* The items of a list from token i on, after the items in acc.
parse_items(toks, i, acc) ==
    LET r == parse_value(toks, i)
    IN  IF ~r.ok \/ r.i > Len(toks) THEN NotParsed
        ELSE IF toks[r.i].k = "]" THEN Parsed(List(Append(acc, r.v)), r.i + 1)
        ELSE IF toks[r.i].k = "," THEN parse_items(toks, r.i + 1, Append(acc, r.v))
        ELSE NotParsed

\* The members of an object from token i on, after the members in acc.
parse_members(toks, i, acc) ==
    IF i + 1 > Len(toks) \/ toks[i].k # "str" \/ toks[i + 1].k # ":"
    THEN NotParsed
    ELSE LET r == parse_value(toks, i + 2)
         IN  IF ~r.ok \/ r.i > Len(toks) THEN NotParsed
             ELSE IF toks[r.i].k = "}"
                  THEN Parsed(py_set(acc, toks[i].s, r.v), r.i + 1)
             ELSE IF toks[r.i].k = ","
                  THEN parse_members(toks, r.i + 1, py_set(acc, toks[i].s, r.v))
             ELSE NotParsed

\* json.load(f): the value if the text is exactly one value.
json_load(toks) ==
    LET r == parse_value(toks, 1)
    IN  IF r.ok /\ r.i = Len(toks) + 1 THEN r.v ELSE JSONDecodeError

\* ------------------------------------------------------------- the file
File(toks) == [exists |-> TRUE, text |-> toks]

\* What a write that fails part-way leaves in the file: nothing, the first
\* token, or the first half of the text.
PartialWrites(toks) ==
    { SubSeq(toks, 1, n) : n \in {0, 1, Len(toks) \div 2} }

\* The files a run may find: none, the dump of a configuration, or the
\* remains of a failed write of the default configuration.
Files ==
    {Missing}
    \cup { File(json_dump(c)) : c \in {DefaultPy, TestPy, EmptyPy, ListPy} }
    \cup { File(toks) : toks \in PartialWrites(json_dump(DefaultPy)) }

\* The ways save_configuration can end for a configuration: the text is
\* written; open() raises IOError and the file is untouched; or the write
\* raises IOError after part of the text is in the file.
SaveEnds(cfg) ==
    { [end |-> "ok", text |-> json_dump(cfg)],
      [end |-> "open_failed", text |-> << >>] }
    \cup { [end |-> "write_failed", text |-> toks] :
             toks \in PartialWrites(json_dump(cfg)) }

\* save_configuration: the file afterwards.  The IOError is logged, not
\* raised.
save_configuration(file, how) ==
    IF how.end = "open_failed" THEN file ELSE File(how.text)

\* A load that, on text that is not JSON, also writes the default back.
load_configuration_rewrites_invalid(file, how) ==
    IF ~file.exists \/ json_load(file.text) = JSONDecodeError
    THEN [config |-> DefaultPy, file |-> save_configuration(file, how),
          save |-> how.end]
    ELSE [config |-> json_load(file.text), file |-> file,
          save |-> "not_called"]

\* load_configuration: the configuration installed, the file afterwards, and
\* how the save_configuration it called ended.
load_configuration(file, how) ==
    IF ~file.exists
    THEN [config |-> DefaultPy, file |-> save_configuration(file, how),
          save |-> how.end]
    ELSE IF json_load(file.text) = JSONDecodeError
    THEN [config |-> DefaultPy, file |-> file, save |-> "not_called"]
    ELSE [config |-> json_load(file.text), file |-> file,
          save |-> "not_called"]

\* self.config.get("agents", [])
config_agents(cfg) == py_get(cfg, "agents", List(<< >>))

\* initialize_agents raises: the configuration is not a mapping
\* (AttributeError), or an element the loop visits is not a mapping with a
\* name and capabilities (TypeError, KeyError).
initialize_agents_raises(cfg) ==
    \/ cfg.t # "dict"
    \/ LET es == config_agents(cfg)
       IN  CASE es.t = "list" ->
                  \E i \in 1..Len(es.items) :
                     \/ es.items[i].t # "dict"
                     \/ py_get(es.items[i], "name", PyNone) = PyNone
                     \/ py_get(es.items[i], "capabilities", PyNone) = PyNone
             [] es.t = "dict" -> es.keys # << >>
             [] es.t = "str" -> es.s # ""
             [] OTHER -> TRUE

\* An initialisation that registers the agents last entry first.
initialize_agents_py_reversed(cfg, t) ==
    LET es == config_agents(cfg)
        n == IF es.t = "list" THEN Len(es.items) ELSE 0
    IN  [ i \in 1..n |->
            NewAgent(py_get(es.items[n + 1 - i], "name", PyNone),
                     py_get(es.items[n + 1 - i], "capabilities", PyNone), t) ]

\* initialize_agents on the loaded value: one Agent per entry, in order,
\* holding the entry's name and capabilities as they were loaded.
initialize_agents_py(cfg, t) ==
    LET es == config_agents(cfg)
        n == IF es.t = "list" THEN Len(es.items) ELSE 0
    IN  [ i \in 1..n |->
            NewAgent(py_get(es.items[i], "name", PyNone),
                     py_get(es.items[i], "capabilities", PyNone), t) ]

\* ------------------------------------------------------------- SpecConfig
\* The orchestrator of Spec is not run while files are loaded and saved.
OrchestratorAtRest ==
    /\ config = DefaultConfig
    /\ now = 0
    /\ agents = initialize_agents(config, now)
    /\ tasks = << >>
    /\ pc = "idle"
    /\ idx = 0
    /\ required_capability = None
    /\ agent = NoAgent
    /\ call = [op |-> "__init__", arg |-> NoAgent, held |-> NoTask]
    /\ start = NoSnapshot

InitConfig ==
    /\ config_file \in Files
    /\ orchestrator = NoObject
    /\ io = NoIo
    /\ written = PyNone
    /\ OrchestratorAtRest
    /\ NoEnhancedRun
    /\ NoMcpServer
    /\ NoStandaloneAgent
    /\ NoMemoryCall
    /\ NoMonitor
    /\ NoSimpleMonitor

\* What the file is known to hold after a load or a save that ended as `save`
\* while writing cfg.
written_after(save, cfg) ==
    CASE save = "ok" -> cfg
      [] save = "write_failed" -> PyNone
      [] OTHER -> written

\* MultiAgentOrchestrator(config_file): empty registry and queue,
\* load_configuration, initialize_agents.  If initialize_agents raises, no
\* object is constructed.
Construct ==
    /\ \E how \in SaveEnds(DefaultPy) :
         LET r == load_configuration(config_file, how)
         IN  /\ config_file' = r.file
             /\ orchestrator' =
                  IF initialize_agents_raises(r.config) THEN NoObject
                  ELSE [config |-> r.config,
                        agents |-> initialize_agents_py(r.config, now),
                        tasks |-> << >>]
             /\ io' = [op |-> "__init__", found |-> config_file,
                       save |-> r.save,
                       raised |-> initialize_agents_raises(r.config)]
             /\ written' = written_after(r.save, DefaultPy)
    /\ UNCHANGED frameOfSpecConfig

\* load_configuration(), called again on the constructed object: the
\* configuration is replaced; the registry is not rebuilt.
LoadConfiguration ==
    /\ orchestrator # NoObject
    /\ \E how \in SaveEnds(DefaultPy) :
         LET r == load_configuration(config_file, how)
         IN  /\ config_file' = r.file
             /\ orchestrator' = [orchestrator EXCEPT !.config = r.config]
             /\ io' = [op |-> "load_configuration", found |-> config_file,
                       save |-> r.save, raised |-> FALSE]
             /\ written' = written_after(r.save, DefaultPy)
    /\ UNCHANGED frameOfSpecConfig

\* save_configuration(), called on the constructed object.
SaveConfiguration ==
    /\ orchestrator # NoObject
    /\ \E how \in SaveEnds(orchestrator.config) :
         /\ config_file' = save_configuration(config_file, how)
         /\ io' = [op |-> "save_configuration", found |-> config_file,
                   save |-> how.end, raised |-> FALSE]
         /\ written' = written_after(how.end, orchestrator.config)
    /\ UNCHANGED orchestrator
    /\ UNCHANGED frameOfSpecConfig

\* The file is edited, replaced or removed outside the program.
EditFile ==
    /\ \E f \in Files \ {config_file} : config_file' = f
    /\ io' = [op |-> "edit", found |-> config_file, save |-> "not_called",
              raised |-> FALSE]
    /\ written' = PyNone
    /\ UNCHANGED orchestrator
    /\ UNCHANGED frameOfSpecConfig

NextConfig ==
    \/ Construct
    \/ LoadConfiguration
    \/ SaveConfiguration
    \/ EditFile

SpecConfig == InitConfig /\ [][NextConfig]_allVars

\* ------------------------------------------------------------- C12 .. C14
\* The agent entries of the constructed orchestrator's configuration.
Entries == config_agents(orchestrator.config).items

\* C12: immediately after the orchestrator is constructed from a
\* configuration, the registry holds exactly one agent per configured agent
\* entry, in configuration order, each idle with no current task, and the
\* task queue is empty.
C12_ConstructedRegistryMirrorsConfiguration ==
    (io.op = "__init__" /\ ~io.raised) =>
        /\ Len(orchestrator.agents) = Len(Entries)
        /\ \A i \in 1..Len(Entries) :
              /\ orchestrator.agents[i].name = py_get(Entries[i], "name", PyNone)
              /\ orchestrator.agents[i].capabilities =
                     py_get(Entries[i], "capabilities", PyNone)
              /\ orchestrator.agents[i].status = "idle"
              /\ orchestrator.agents[i].current_task = NoTask
        /\ orchestrator.tasks = << >>

\* C12's case: an orchestrator has just been constructed from the file of
\* the unit test, and holds its two agents in the file's order.
C12_Witness ==
    /\ io.op = "__init__"
    /\ ~io.raised
    /\ io.found = File(json_dump(TestPy))
    /\ Len(orchestrator.agents) = 2
    /\ orchestrator.agents[1].name = Str("TestAgent1")
    /\ orchestrator.agents[2].name = Str("TestAgent2")

\* The last call was a load (by itself or inside the constructor).
Loaded == io.op \in {"load_configuration", "__init__"}

\* C13: when the file is what save_configuration wrote for the default
\* configuration, load_configuration installs a configuration equal to the
\* default one: same agents in the same order, same task_priorities, same
\* capability_map.
C13_DefaultConfigurationRoundTrip ==
    (Loaded /\ io.save = "not_called" /\ io.found.exists
            /\ written = DefaultPy) =>
        /\ orchestrator.config = DefaultPy
        /\ config_agents(orchestrator.config) = config_agents(DefaultPy)
        /\ py_get(orchestrator.config, "task_priorities", PyNone)
              = py_get(DefaultPy, "task_priorities", PyNone)
        /\ py_get(orchestrator.config, "capability_map", PyNone)
              = py_get(DefaultPy, "capability_map", PyNone)

\* C13's case: the file found by the load is the text a completed
\* save_configuration wrote for the default configuration, and the load
\* installed the default configuration from it.
C13_Witness ==
    /\ io.op = "load_configuration"
    /\ io.save = "not_called"
    /\ written = DefaultPy
    /\ io.found = File(json_dump(DefaultPy))
    /\ config_file = io.found
    /\ orchestrator.config = DefaultPy

\* The file the last load found was missing / was not valid JSON.
FoundMissing == Loaded /\ ~io.found.exists
FoundInvalid ==
    Loaded /\ io.found.exists /\ json_load(io.found.text) = JSONDecodeError

\* The agents of the default configuration, as the constructor builds them.
DefaultAgents == initialize_agents_py(DefaultPy, now)

\* C14 as stated: a missing file is answered by the default configuration
\* and by the file holding it afterwards; a file that is not valid JSON by
\* the default configuration and an unchanged file; in both cases the
\* constructor goes on to build the default agents.
C14_AsStated ==
    /\ FoundMissing =>
          /\ orchestrator.config = DefaultPy
          /\ config_file = File(json_dump(DefaultPy))
    /\ FoundInvalid =>
          /\ orchestrator.config = DefaultPy
          /\ config_file = io.found
    /\ ((FoundMissing \/ FoundInvalid) /\ io.op = "__init__") =>
          /\ ~io.raised
          /\ orchestrator.agents = DefaultAgents

\* C14, amended: for a missing file the default configuration is installed
\* and save_configuration is called; the file holds the default
\* configuration if the write succeeds, and otherwise is still missing (open
\* failed) or holds the part that was written, which is not valid JSON.  For
\* a file that is not valid JSON the default is installed and the file is
\* left unchanged.  In every case the constructor builds the default agents.
C14_DefaultOnMissingOrInvalidFile ==
    /\ FoundMissing =>
          /\ orchestrator.config = DefaultPy
          /\ io.save \in {"ok", "open_failed", "write_failed"}
          /\ io.save = "ok" => config_file = File(json_dump(DefaultPy))
          /\ io.save = "open_failed" => config_file = Missing
          /\ io.save = "write_failed" =>
                /\ config_file.exists
                /\ json_load(config_file.text) = JSONDecodeError
    /\ FoundInvalid =>
          /\ orchestrator.config = DefaultPy
          /\ io.save = "not_called"
          /\ config_file = io.found
    /\ ((FoundMissing \/ FoundInvalid) /\ io.op = "__init__") =>
          /\ ~io.raised
          /\ orchestrator.agents = DefaultAgents
          /\ Len(orchestrator.agents) = Len(DefaultConfig.agents)
          /\ \A i \in 1..Len(orchestrator.agents) :
                orchestrator.agents[i].name.s = DefaultConfig.agents[i].name
          /\ orchestrator.tasks = << >>

\* C14's case: the constructor found no file, the write-back failed at
\* open(), and the orchestrator holds the default configuration and agents
\* while the file is still missing.
C14_Witness ==
    /\ io.op = "__init__"
    /\ ~io.found.exists
    /\ io.save = "open_failed"
    /\ config_file = Missing
    /\ orchestrator.config = DefaultPy
    /\ Len(orchestrator.agents) = 4

\* ======================================================================
\* The enhanced orchestrator (ENHANCED_MULTI_AGENT_ORCHESTRATOR.py): task
\* scoring and distribution, and the loop of orchestrate_agents
\* (specifications SpecScore and SpecLoop).
\* ======================================================================
\* --------------------------------------------------------------- bounds
\* Most tasks create_revenue_task is called for in a run of the loop.
MaxCreated == 2

\* ------------------------------------------------------ scores as integers
\* A score s of the code (a float in [0, 1]) is the integer s * Scale; every
\* score the model computes is a whole number of these units.  A total score
\* is kept in units of 1 / (5 * Scale), so that the weights 0.4, 0.4 and 0.2
\* are 2, 2 and 1.  For the inputs explored (at most three requirements,
\* efficiency 1.0 or 0.5, no task with status "active") two float scores of
\* the code compare as the exact ones do.
Scale == 120

\* orchestration_rules["max_concurrent_tasks_per_agent"]
max_concurrent_tasks_per_agent == 3

\* AgentStatus
AgentStatus == {"idle", "active", "busy", "error", "maintenance"}

\* initialize_enhanced_agents: the five agents, in the order of the dict.
EnhancedAgents ==
    << [ id |-> "REVENUE_ORCHESTRATOR", status |-> "idle",
         capabilities |-> <<"multi_channel_coordination", "dynamic_pricing",
                            "conversion_optimization", "pipeline_management",
                            "predictive_analytics">>,
         specializations |-> <<"enterprise_sales", "saas_scaling",
                               "revenue_optimization">> ],
       [ id |-> "COORDINATION_COMMANDER", status |-> "idle",
         capabilities |-> <<"task_distribution", "agent_coordination",
                            "workflow_optimization", "resource_allocation",
                            "conflict_resolution">>,
         specializations |-> <<"task_orchestration", "agent_coordination",
                               "workflow_optimization">> ],
       [ id |-> "ANALYTICS_INTELLIGENCE", status |-> "idle",
         capabilities |-> <<"predictive_modeling", "revenue_forecasting",
                            "market_analysis", "performance_optimization",
                            "competitive_intelligence">>,
         specializations |-> <<"predictive_analytics",
                               "business_intelligence", "market_analysis">> ],
       [ id |-> "AUTOMATION_ARCHITECT", status |-> "idle",
         capabilities |-> <<"process_automation", "workflow_design",
                            "system_integration", "efficiency_optimization",
                            "scalability_planning">>,
         specializations |-> <<"process_automation", "workflow_optimization",
                               "system_integration">> ],
       [ id |-> "CLIENT_RELATIONSHIP_MASTER", status |-> "idle",
         capabilities |-> <<"client_engagement", "relationship_optimization",
                            "satisfaction_prediction", "retention_management",
                            "upsell_coordination">>,
         specializations |-> <<"client_relationships", "customer_success",
                               "retention_optimization">> ] >>

\* AgentPerformance().efficiency_score, in score units.
DefaultEfficiency == Scale

\* The position of an agent id in self.agents.
AgentIndex(e, agent_id) ==
    CHOOSE i \in 1..Len(e.agents) : e.agents[i].id = agent_id

\* ------------------------------------------------------------------ tasks
\* The Task create_revenue_task builds.  oid tells the objects apart: two
\* tasks may carry the same id.
NewRevenueTask(oid, task_id, task_type, priority, required_capabilities) ==
    [ oid |-> oid, id |-> task_id, type |-> task_type, priority |-> priority,
      assigned_agent |-> "", status |-> "pending",
      required_capabilities |-> required_capabilities ]

\* required_capabilities a caller may pass: none; one that an agent holds as
\* capability and as specialization; one that is a capability of one agent
\* and a specialization of another; two held by different agents; three of
\* which one agent holds two twice over; one nobody holds; a specialization
\* of one agent with a capability of another.
RequiredCapabilities ==
    { << >>,
      <<"market_analysis">>,
      <<"predictive_analytics">>,
      <<"client_engagement", "task_distribution">>,
      <<"process_automation", "system_integration", "dynamic_pricing">>,
      <<"unknown_skill">>,
      <<"customer_success", "workflow_design">> }

\* ---------------------------------------------------------------- scoring
Min(a, b) == IF a <= b THEN a ELSE b

\* sum(1 for req in task_requirements if req in items), from position k.
RECURSIVE count_in(_, _, _)
count_in(task_requirements, items, k) ==
    IF k > Len(task_requirements) THEN 0
    ELSE (IF \E j \in 1..Len(items) : items[j] = task_requirements[k]
          THEN 1 ELSE 0)
         + count_in(task_requirements, items, k + 1)

\* A match without the final min(total_score, 1.0).
calculate_capability_match_uncapped(task, a) ==
    IF task.required_capabilities = << >> THEN Scale \div 2
    ELSE (Scale * (2 * count_in(task.required_capabilities, a.capabilities, 1)
                   + 3 * count_in(task.required_capabilities,
                                  a.specializations, 1)))
         \div (2 * Len(task.required_capabilities))

\* calculate_capability_match: 0.5 for a task without requirements, else
\* (capability_matches + specialization_matches * 1.5) / len, at most 1.0.
calculate_capability_match(task, a) ==
    IF task.required_capabilities = << >> THEN Scale \div 2
    ELSE Min((Scale * (2 * count_in(task.required_capabilities,
                                    a.capabilities, 1)
                       + 3 * count_in(task.required_capabilities,
                                      a.specializations, 1)))
             \div (2 * Len(task.required_capabilities)),
             Scale)

\* The tasks of self.tasks that count as current for an agent: assigned to it
\* and with status "active".
current_tasks(e, agent_id) ==
    Cardinality({ i \in 1..Len(e.tasks) :
                    /\ e.tasks[i].assigned_agent = agent_id
                    /\ e.tasks[i].status = "active" })

\* calculate_availability_score
calculate_availability_score(e, agent_id) ==
    IF current_tasks(e, agent_id) >= max_concurrent_tasks_per_agent THEN 0
    ELSE (Scale * (max_concurrent_tasks_per_agent - current_tasks(e, agent_id)))
         \div max_concurrent_tasks_per_agent

\* capability * 0.4 + performance * 0.4 + availability * 0.2
total_score(capability_score, performance_score, availability_score) ==
    2 * capability_score + 2 * performance_score + availability_score

\* The scores of one agent for a task.
score_of(e, task, agent_id) ==
    LET i == AgentIndex(e, agent_id)
        c == calculate_capability_match(task, e.agents[i])
        f == e.performance_metrics[i]
        v == calculate_availability_score(e, agent_id)
    IN  [ agent |-> agent_id, capability_score |-> c,
          performance_score |-> f, availability_score |-> v,
          total_score |-> total_score(c, f, v) ]

\* The loop of find_optimal_agent_for_task from position k on, with the best
\* agent and score so far.
RECURSIVE scan_scores(_, _, _, _, _, _)
scan_scores(e, task, available_agents, k, best_agent, best_score) ==
    IF k > Len(available_agents) THEN best_agent
    ELSE LET s == score_of(e, task, available_agents[k]).total_score
         IN  IF s > best_score
             THEN scan_scores(e, task, available_agents, k + 1,
                              available_agents[k], s)
             ELSE scan_scores(e, task, available_agents, k + 1,
                              best_agent, best_score)

\* A search that keeps the later of two agents with the same score.
RECURSIVE scan_scores_last(_, _, _, _, _, _)
scan_scores_last(e, task, available_agents, k, best_agent, best_score) ==
    IF k > Len(available_agents) THEN best_agent
    ELSE LET s == score_of(e, task, available_agents[k]).total_score
         IN  IF s >= best_score
             THEN scan_scores_last(e, task, available_agents, k + 1,
                                   available_agents[k], s)
             ELSE scan_scores_last(e, task, available_agents, k + 1,
                                   best_agent, best_score)

find_optimal_agent_for_task_last_tie(e, task, available_agents) ==
    scan_scores_last(e, task, available_agents, 1, None, 0)

\* find_optimal_agent_for_task: best_agent = None, best_score = 0, then the
\* loop.
find_optimal_agent_for_task(e, task, available_agents) ==
    scan_scores(e, task, available_agents, 1, None, 0)

\* [agent_id for agent_id, agent in self.agents.items()
\*  if agent["status"] in [IDLE, ACTIVE]], over positions k.. of statuses.
RECURSIVE available_from(_, _, _)
available_from(ags, statuses, k) ==
    IF k > Len(ags) THEN << >>
    ELSE (IF statuses[k] \in {"idle", "active"} THEN <<ags[k].id>> ELSE << >>)
         \o available_from(ags, statuses, k + 1)

\* The statuses of the agents, in order.
statuses_of(e) == [i \in 1..Len(e.agents) |-> e.agents[i].status]

\* self.tasks[task.id] = task: a known id keeps its place in the dict.
tasks_put(ts, task) ==
    IF \E i \in 1..Len(ts) : ts[i].id = task.id
    THEN [ts EXCEPT ![CHOOSE i \in 1..Len(ts) : ts[i].id = task.id] = task]
    ELSE Append(ts, task)

\* self.task_queue.remove(task): the first element equal to the task, which
\* is the task itself (every other queued task is still pending).
queue_remove(q, task) ==
    LET i == CHOOSE j \in 1..Len(q) :
                 /\ q[j].oid = task.oid
                 /\ \A h \in 1..(j - 1) : q[h].oid # task.oid
    IN  SubSeq(q, 1, i - 1) \o SubSeq(q, i + 1, Len(q))

\* An assignment that marks the agent BUSY.
assign_task_to_agent_busy(e, task, agent_id) ==
    LET t == [task EXCEPT !.assigned_agent = agent_id, !.status = "assigned"]
        i == AgentIndex(e, agent_id)
    IN  [ e EXCEPT
            !.tasks = tasks_put(@, t),
            !.communication_hub[i].inbox =
                Append(@, [type |-> "task_assignment", task |-> t,
                           priority |-> t.priority]),
            !.agents[i].status = "busy" ]

\* assign_task_to_agent: the task is marked, stored under its id, announced
\* in the agent's inbox, and the agent becomes ACTIVE.
assign_task_to_agent(e, task, agent_id) ==
    LET t == [task EXCEPT !.assigned_agent = agent_id, !.status = "assigned"]
        i == AgentIndex(e, agent_id)
    IN  [ e EXCEPT
            !.tasks = tasks_put(@, t),
            !.communication_hub[i].inbox =
                Append(@, [type |-> "task_assignment", task |-> t,
                           priority |-> t.priority]),
            !.agents[i].status = "active" ]

\* ------------------------------------------- intelligent_task_distribution
\* The pass is entered: available_agents is computed once, and the loop runs
\* over a copy of the queue.
BeginDistribution ==
    /\ loop.pc = "intelligent_task_distribution"
    /\ loop' = [loop EXCEPT
                  !.pc = "for_task",
                  !.steps = Append(@, "intelligent_task_distribution"),
                  !.available_agents =
                      available_from(enhanced.agents, statuses_of(enhanced), 1),
                  !.queue_copy = enhanced.task_queue,
                  !.k = 1,
                  !.at_start = statuses_of(enhanced)]
    /\ pick' = NoPick
    /\ UNCHANGED enhanced
    /\ UNCHANGED frameOfSpecLoop

\* One iteration of `for task in self.task_queue[:]`: the pass is left if no
\* agent is available; otherwise the best agent is looked for and, if there
\* is one, given the task, which leaves the queue.
DistributeTask ==
    /\ loop.pc = "for_task"
    /\ loop.k <= Len(loop.queue_copy)
    /\ IF loop.available_agents = << >>
       THEN /\ loop' = [loop EXCEPT !.pc = "coordinate_agent_activities"]
            /\ UNCHANGED <<enhanced, pick>>
       ELSE LET task == loop.queue_copy[loop.k]
                best_agent == find_optimal_agent_for_task(
                                  enhanced, task, loop.available_agents)
            IN  /\ pick' = [ task |-> task.oid,
                             available_agents |-> loop.available_agents,
                             scores |->
                               [ n \in 1..Len(loop.available_agents) |->
                                   score_of(enhanced, task,
                                            loop.available_agents[n]) ],
                             best_agent |-> best_agent ]
                /\ enhanced' =
                     IF best_agent # None
                     THEN [ assign_task_to_agent(enhanced, task, best_agent)
                              EXCEPT !.task_queue = queue_remove(@, task) ]
                     ELSE enhanced
                /\ loop' = [loop EXCEPT !.k = @ + 1]
    /\ UNCHANGED frameOfSpecLoop

\* The copy of the queue is exhausted: intelligent_task_distribution returns.
EndDistribution ==
    /\ loop.pc = "for_task"
    /\ loop.k > Len(loop.queue_copy)
    /\ loop' = [loop EXCEPT !.pc = "coordinate_agent_activities"]
    /\ UNCHANGED <<enhanced, pick>>
    /\ UNCHANGED frameOfSpecLoop

\* -------------------------------------------------------------- SpecScore
\* find_optimal_agent_for_task and the two scores it uses, applied in one
\* distribution pass to agents, efficiencies and queues drawn from the sets
\* below.
\* Statuses of the five agents: all idle, one agent in another status, or all
\* busy.
StatusVectors ==
    { [i \in 1..Len(EnhancedAgents) |-> "idle"],
      [i \in 1..Len(EnhancedAgents) |-> "busy"] }
    \cup { [i \in 1..Len(EnhancedAgents) |-> IF i = a THEN s ELSE "idle"] :
             a \in 1..Len(EnhancedAgents), s \in AgentStatus \ {"idle"} }

\* Efficiency scores of the five agents: all 1.0, or one agent at 0.5.
EfficiencyVectors ==
    { [i \in 1..Len(EnhancedAgents) |-> DefaultEfficiency] }
    \cup { [i \in 1..Len(EnhancedAgents) |->
              IF i = a THEN Scale \div 2 ELSE DefaultEfficiency] :
             a \in 1..Len(EnhancedAgents) }

\* Queues of one or two pending tasks, and queues of four tasks with the
\* same requirements.
InputQueues ==
    { << NewRevenueTask(1, "rev_1", "lead_generation", "HIGH", r) >> :
        r \in RequiredCapabilities }
    \cup { << NewRevenueTask(1, "rev_1", "lead_generation", "HIGH", r),
              NewRevenueTask(2, "rev_2", "proposal_creation", "CRITICAL", q) >> :
             r \in RequiredCapabilities, q \in RequiredCapabilities }
    \cup { << NewRevenueTask(1, "rev_1", "lead_generation", "HIGH", r),
              NewRevenueTask(2, "rev_2", "lead_generation", "HIGH", r),
              NewRevenueTask(3, "rev_3", "lead_generation", "HIGH", r),
              NewRevenueTask(4, "rev_4", "lead_generation", "HIGH", r) >> :
             r \in {<< >>, <<"market_analysis">>} }

\* initialize_enhanced_agents, on the object e.
initialize_enhanced_agents(e) ==
    [ e EXCEPT
        !.agents = EnhancedAgents,
        !.performance_metrics =
            [i \in 1..Len(EnhancedAgents) |-> DefaultEfficiency],
        !.communication_hub =
            [i \in 1..Len(EnhancedAgents) |->
               [inbox |-> << >>, outbox |-> << >>]] ]

InitScore ==
    /\ \E sv \in StatusVectors, ev \in EfficiencyVectors, q \in InputQueues :
         enhanced =
           [ initialize_enhanced_agents(NewEnhanced) EXCEPT
               !.agents = [i \in 1..Len(EnhancedAgents) |->
                             [EnhancedAgents[i] EXCEPT !.status = sv[i]]],
               !.performance_metrics = ev,
               !.task_queue = q ]
    /\ loop = [NotStarted EXCEPT !.pc = "intelligent_task_distribution"]
    /\ pick = NoPick
    /\ OrchestratorAtRest
    /\ NoConstruction
    /\ NoMcpServer
    /\ NoStandaloneAgent
    /\ NoMemoryCall
    /\ NoMonitor
    /\ NoSimpleMonitor

NextScore ==
    \/ BeginDistribution
    \/ DistributeTask
    \/ EndDistribution

SpecScore == InitScore /\ [][NextScore]_allVars

\* ------------------------------------------------------------- C15 .. C17
\* find_optimal_agent_for_task has been called in the current pass.
Picked == pick.task # NoTask

\* The position in pick.scores of the agent that was returned.
BestPosition ==
    CHOOSE n \in 1..Len(pick.scores) : pick.scores[n].agent = pick.best_agent

\* C15: find_optimal_agent_for_task scores exactly the agents that were IDLE
\* or ACTIVE when the distribution pass started, in the order of the agent
\* mapping; each score is 0.4 * capability match + 0.4 * efficiency score +
\* 0.2 * availability; the agent returned has the highest score, and every
\* agent enumerated before it has a strictly lower one.
C15_BestScoreFirstOnTie ==
    Picked =>
      /\ pick.available_agents =
            available_from(enhanced.agents, loop.at_start, 1)
      /\ Len(pick.scores) = Len(pick.available_agents)
      /\ \A n \in 1..Len(pick.scores) :
            LET s == pick.scores[n]
                i == AgentIndex(enhanced, s.agent)
            IN  /\ s.agent = pick.available_agents[n]
                /\ loop.at_start[i] \in {"idle", "active"}
                /\ s.performance_score = enhanced.performance_metrics[i]
                /\ 10 * s.total_score =
                       5 * (4 * s.capability_score + 4 * s.performance_score
                            + 2 * s.availability_score)
      /\ \E n \in 1..Len(pick.scores) : pick.scores[n].agent = pick.best_agent
      /\ \A n \in 1..Len(pick.scores) :
            /\ pick.scores[n].total_score
                  <= pick.scores[BestPosition].total_score
            /\ n < BestPosition =>
                  pick.scores[n].total_score
                     < pick.scores[BestPosition].total_score

\* C15's case: an agent was returned while a later agent had the same
\* (highest) score, another scored agent had a lower one, and one agent was
\* not scored because it was neither IDLE nor ACTIVE when the pass started.
C15_Witness ==
    /\ Picked
    /\ pick.best_agent # None
    /\ \E n \in 1..Len(pick.scores) :
          /\ n > BestPosition
          /\ pick.scores[n].total_score
                = pick.scores[BestPosition].total_score
    /\ \E n \in 1..Len(pick.scores) :
          pick.scores[n].total_score < pick.scores[BestPosition].total_score
    /\ \E i \in 1..Len(loop.at_start) :
          loop.at_start[i] \notin {"idle", "active"}

\* The number of required capabilities of a task found in a list.
Matches(task, items) ==
    Cardinality({ k \in 1..Len(task.required_capabilities) :
                    \E j \in 1..Len(items) :
                       items[j] = task.required_capabilities[k] })

\* Twice (matches in capabilities + 1.5 * matches in specializations).
TwiceWeightedMatches(task, a) ==
    2 * Matches(task, a.capabilities) + 3 * Matches(task, a.specializations)

\* C17 as stated: for every task and agent, calculate_capability_match is
\* the fraction of the required capabilities found in the agent's
\* capabilities plus 1.5 times the fraction found in its specializations,
\* and lies between 0 and 1 (also for a task without required capabilities).
C17_AsStated ==
    \A k \in 1..Len(loop.queue_copy), i \in 1..Len(enhanced.agents) :
       LET task == loop.queue_copy[k]
           a == enhanced.agents[i]
           c == calculate_capability_match(task, a)
       IN  /\ task.required_capabilities # << >> =>
                 2 * Len(task.required_capabilities) * c
                    = Scale * TwiceWeightedMatches(task, a)
           /\ 0 <= c
           /\ c <= Scale

\* C17, amended: calculate_capability_match is the smaller of 1 and the
\* fraction of the required capabilities found in the agent's capabilities
\* plus 1.5 times the fraction found in its specializations; it is 0.5 for a
\* task without required capabilities; so it lies between 0 and 1 for every
\* task and agent.
C17_CapabilityMatchIsCappedFraction ==
    \A k \in 1..Len(loop.queue_copy), i \in 1..Len(enhanced.agents) :
       LET task == loop.queue_copy[k]
           a == enhanced.agents[i]
           c == calculate_capability_match(task, a)
           n == Len(task.required_capabilities)
       IN  /\ (n > 0 /\ TwiceWeightedMatches(task, a) <= 2 * n) =>
                 2 * n * c = Scale * TwiceWeightedMatches(task, a)
           /\ (n > 0 /\ TwiceWeightedMatches(task, a) > 2 * n) => c = Scale
           /\ n = 0 => 2 * c = Scale
           /\ 0 <= c
           /\ c <= Scale
           /\ \A s \in 1..Len(pick.scores) :
                 (pick.task = task.oid /\ pick.scores[s].agent = a.id) =>
                     pick.scores[s].capability_score = c

\* C17's case: find_optimal_agent_for_task has scored a task for which one
\* agent's weighted matches exceed the number of requirements (its match is
\* 1) while another agent's match is a proper fraction.
C17_Witness ==
    /\ Picked
    /\ \E k \in 1..Len(loop.queue_copy), s \in 1..Len(pick.scores) :
          LET task == loop.queue_copy[k]
              a == enhanced.agents[AgentIndex(enhanced, pick.scores[s].agent)]
          IN  /\ pick.task = task.oid
              /\ TwiceWeightedMatches(task, a)
                    > 2 * Len(task.required_capabilities)
              /\ pick.scores[s].capability_score = Scale
    /\ \E s \in 1..Len(pick.scores) :
          /\ pick.scores[s].capability_score > 0
          /\ pick.scores[s].capability_score < Scale

\* --------------------------------------------------------------- SpecLoop
\* The loop of orchestrate_agents, run on the object as __init__ leaves it,
\* with initialize_enhanced_agents and create_revenue_task called before the
\* loop is started or while it is suspended in asyncio.sleep.
InitLoop ==
    /\ enhanced = NewEnhanced
    /\ loop = NotStarted
    /\ pick = NoPick
    /\ OrchestratorAtRest
    /\ NoConstruction
    /\ NoMcpServer
    /\ NoStandaloneAgent
    /\ NoMemoryCall
    /\ NoMonitor
    /\ NoSimpleMonitor

\* Where other code runs: before orchestrate_agents is called, and during
\* its sleep.  (The awaited methods of the loop body never suspend.)
AwaitPoints == {"not_started", "sleep_5"}

\* required_capabilities the callers of create_revenue_task pass in a run of
\* the loop, and the ids time.time() and random.randint give (two calls may
\* draw the same id).
LoopRequiredCapabilities ==
    { << >>, <<"client_engagement", "task_distribution">> }
TaskIdPool == {"rev_1", "rev_2"}

\* initialize_enhanced_agents(), called once.
InitializeEnhancedAgents ==
    /\ loop.pc \in AwaitPoints
    /\ enhanced.agents = << >>
    /\ enhanced' = initialize_enhanced_agents(enhanced)
    /\ UNCHANGED <<loop, pick>>
    /\ UNCHANGED frameOfSpecLoop

\* create_revenue_task(task_type, priority, required_capabilities=...): a
\* pending task is appended to the queue.
CreateRevenueTask ==
    /\ loop.pc \in AwaitPoints
    /\ loop.created < MaxCreated
    /\ \E task_id \in TaskIdPool, r \in LoopRequiredCapabilities :
         enhanced' = [enhanced EXCEPT !.task_queue =
                        Append(@, NewRevenueTask(loop.created + 1, task_id,
                                                 "lead_generation", "HIGH", r))]
    /\ loop' = [loop EXCEPT !.created = @ + 1]
    /\ UNCHANGED pick
    /\ UNCHANGED frameOfSpecLoop

\* orchestrate_agents() is called: self.running = True.
StartOrchestration ==
    /\ loop.pc = "not_started"
    /\ enhanced' = [enhanced EXCEPT !.running = TRUE]
    /\ loop' = [loop EXCEPT !.pc = "while"]
    /\ UNCHANGED pick
    /\ UNCHANGED frameOfSpecLoop

\* `while self.running:` an iteration is entered, or the coroutine returns.
WhileRunning ==
    /\ loop.pc = "while"
    /\ loop' = [loop EXCEPT
                  !.pc = IF enhanced.running THEN "analyze_system_state"
                         ELSE "returned",
                  !.steps = << >>]
    /\ UNCHANGED <<enhanced, pick>>
    /\ UNCHANGED frameOfSpecLoop

\* analyze_system_state: identify_optimization_opportunities takes max() of
\* the agents' loads, which raises ValueError while there are no agents.
AnalyzeSystemState ==
    /\ loop.pc = "analyze_system_state"
    /\ loop' = [loop EXCEPT
                  !.steps = Append(@, "analyze_system_state"),
                  !.pc = IF enhanced.agents = << >> THEN "except"
                         ELSE "intelligent_task_distribution",
                  !.last_error = IF enhanced.agents = << >>
                                 THEN "analyze_system_state" ELSE @]
    /\ UNCHANGED <<enhanced, pick>>
    /\ UNCHANGED frameOfSpecLoop

\* An ACTIVE agent has a task in self.tasks.
ActiveAgentWithTask(e) ==
    \E i \in 1..Len(e.agents), j \in 1..Len(e.tasks) :
        /\ e.agents[i].status = "active"
        /\ e.tasks[j].assigned_agent = e.agents[i].id

\* coordinate_agent_activities: for each task of an ACTIVE agent it calls
\* self.identify_collaboration_opportunities, which the class does not
\* define (AttributeError); without such a task it does nothing.
CoordinateAgentActivities ==
    /\ loop.pc = "coordinate_agent_activities"
    /\ loop' = [loop EXCEPT
                  !.steps = Append(@, "coordinate_agent_activities"),
                  !.pc = IF ActiveAgentWithTask(enhanced) THEN "except"
                         ELSE "optimize_revenue_processes",
                  !.last_error = IF ActiveAgentWithTask(enhanced)
                                 THEN "coordinate_agent_activities" ELSE @,
                  !.available_agents = << >>,
                  !.queue_copy = << >>,
                  !.k = 0,
                  !.at_start = << >>]
    /\ pick' = NoPick
    /\ UNCHANGED enhanced
    /\ UNCHANGED frameOfSpecLoop

\* optimize_revenue_processes: the simulated (random) performance asks for an
\* optimization or for none; for one, self.execute_revenue_optimization is
\* called, which the class does not define (AttributeError).
OptimizeRevenueProcesses ==
    /\ loop.pc = "optimize_revenue_processes"
    /\ \E optimizations \in BOOLEAN :
         loop' = [loop EXCEPT
                    !.steps = Append(@, "optimize_revenue_processes"),
                    !.pc = IF optimizations THEN "except"
                           ELSE "monitor_and_optimize_performance",
                    !.last_error = IF optimizations
                                   THEN "optimize_revenue_processes" ELSE @]
    /\ UNCHANGED <<enhanced, pick>>
    /\ UNCHANGED frameOfSpecLoop

\* self.monitor_and_optimize_performance(): the class does not define it, so
\* the attribute lookup raises AttributeError.  (process_agent_communications
\* and asyncio.sleep(1), which follow it, are never reached.)
MonitorAndOptimizePerformance ==
    /\ loop.pc = "monitor_and_optimize_performance"
    /\ loop' = [loop EXCEPT
                  !.steps = Append(@, "monitor_and_optimize_performance"),
                  !.pc = "except",
                  !.last_error = "monitor_and_optimize_performance"]
    /\ UNCHANGED <<enhanced, pick>>
    /\ UNCHANGED frameOfSpecLoop

\* A handler that gives up: it clears self.running.
OrchestrationError_gives_up ==
    /\ loop.pc = "except"
    /\ loop' = [loop EXCEPT !.pc = "sleep_5"]
    /\ enhanced' = [enhanced EXCEPT !.running = FALSE]
    /\ UNCHANGED pick
    /\ UNCHANGED frameOfSpecLoop

\* `except Exception as e:` the error is printed, and the coroutine sleeps.
OrchestrationError ==
    /\ loop.pc = "except"
    /\ loop' = [loop EXCEPT !.pc = "sleep_5"]
    /\ UNCHANGED <<enhanced, pick>>
    /\ UNCHANGED frameOfSpecLoop

\* asyncio.sleep(5) returns: back to the test of the while loop.
SleepOver ==
    /\ loop.pc = "sleep_5"
    /\ loop' = [loop EXCEPT !.pc = "while"]
    /\ UNCHANGED <<enhanced, pick>>
    /\ UNCHANGED frameOfSpecLoop

NextLoop ==
    \/ InitializeEnhancedAgents
    \/ CreateRevenueTask
    \/ StartOrchestration
    \/ WhileRunning
    \/ AnalyzeSystemState
    \/ BeginDistribution
    \/ DistributeTask
    \/ EndDistribution
    \/ CoordinateAgentActivities
    \/ OptimizeRevenueProcesses
    \/ MonitorAndOptimizePerformance
    \/ OrchestrationError
    \/ SleepOver

SpecLoop == InitLoop /\ [][NextLoop]_allVars

\* The steps of the coroutine itself.
LoopStep ==
    \/ WhileRunning
    \/ AnalyzeSystemState
    \/ BeginDistribution
    \/ DistributeTask
    \/ EndDistribution
    \/ CoordinateAgentActivities
    \/ OptimizeRevenueProcesses
    \/ MonitorAndOptimizePerformance
    \/ OrchestrationError
    \/ SleepOver

\* The event loop resumes the coroutine whenever it can run: none of its
\* steps blocks, and asyncio.sleep returns.
FairSpecLoop == SpecLoop /\ WF_allVars(LoopStep)

\* ------------------------------------------------------------- C16, C18, C19
\* The tasks of self.tasks that are assigned to an agent.
AssignedTo(agent_id) ==
    Cardinality({ j \in 1..Len(enhanced.tasks) :
                    enhanced.tasks[j].assigned_agent = agent_id })

\* C16: for every agent, calculate_availability_score is
\* (max_concurrent_tasks_per_agent - the number of tasks it is working on)
\* / max_concurrent_tasks_per_agent, and 0 if that is negative, so that each
\* further task assigned to the agent lowers its score until it is 0.
C16_AvailabilityFallsWithAssignedTasks ==
    \A i \in 1..Len(enhanced.agents) :
       LET agent_id == enhanced.agents[i].id
           score == calculate_availability_score(enhanced, agent_id)
       IN  IF AssignedTo(agent_id) >= max_concurrent_tasks_per_agent
           THEN score = 0
           ELSE max_concurrent_tasks_per_agent * score
                   = Scale * (max_concurrent_tasks_per_agent
                              - AssignedTo(agent_id))

\* The loop has been entered.
Started == loop.pc # "not_started"

\* C18: once orchestrate_agents runs, self.running stays true and the
\* coroutine never returns; an exception raised by a step of the body leads
\* to the handler, the handler to the sleep of five seconds, the sleep to
\* the test of the loop, and the test to the first step of a new iteration;
\* and (the coroutine being resumed whenever it can run) every exception is
\* followed by the first step of a new iteration.
C18_ExceptionsRestartTheLoop ==
    /\ [](Started => (enhanced.running /\ loop.pc # "returned"))
    /\ [][/\ (loop.pc = "except" /\ loop' # loop) =>
                (loop'.pc = "sleep_5" /\ enhanced'.running)
          /\ (loop.pc = "sleep_5" /\ loop'.pc # "sleep_5") =>
                (loop'.pc = "while" /\ enhanced'.running)
          /\ (loop.pc = "while" /\ loop' # loop) =>
                (loop'.pc = "analyze_system_state" /\ loop'.steps = << >>)
          /\ (loop'.pc = "except" /\ loop.pc # "except") =>
                (/\ loop.pc \in {"analyze_system_state",
                                 "coordinate_agent_activities",
                                 "optimize_revenue_processes",
                                 "monitor_and_optimize_performance"}
                 /\ loop'.last_error = loop.pc)]_allVars
    /\ (loop.pc = "except") ~> (loop.pc = "analyze_system_state")

\* C18's case: the iteration before ended with the exception of a step, and
\* a new iteration has run its first step and gone on to the second, with
\* self.running still true.
C18_Witness ==
    /\ loop.pc = "intelligent_task_distribution"
    /\ loop.last_error = "monitor_and_optimize_performance"
    /\ loop.steps = <<"analyze_system_state">>
    /\ enhanced.running

\* The six steps of the loop body, in the order of lines 370-385.
SixSteps ==
    << "analyze_system_state", "intelligent_task_distribution",
       "coordinate_agent_activities", "optimize_revenue_processes",
       "monitor_and_optimize_performance", "process_agent_communications" >>

\* C19: an iteration of the loop that is over has entered the six steps, in
\* order, and has ended in the sleep that follows them (not in the handler).
C19_IterationRunsSixStepsInOrder ==
    loop.pc \in {"except", "sleep_5", "sleep_1"} =>
        /\ loop.steps = SixSteps
        /\ loop.pc = "sleep_1"

\* =========================================================================
\* The memory server: mcp-servers/mcp_memory_persistence_server.py
\* =========================================================================

\* The most lines a client writes to the server's standard input in one run.
MaxLines == 2

\* -------------------------------------------------------- Python operations
\* An exception in flight, with the text str(e) gives.
Raise(type, msg) == [t |-> "raise", type |-> type, msg |-> msg]

\* type(v).__name__
type_name(v) ==
    CASE v.t = "str" -> "str" [] v.t = "list" -> "list"
      [] v.t = "dict" -> "dict" [] v.t = "None" -> "NoneType"

\* str(v) of a str or of None.
py_str(v) == IF v = PyNone THEN "None" ELSE v.s

\* prefix + arg, for the f-strings and the arguments the server meets here.
fstring(prefix, arg) ==
    CASE prefix = "Unknown method: " /\ arg = "resources/list"
            -> "Unknown method: resources/list"
      [] prefix = "Unknown method: " /\ arg = "None"
            -> "Unknown method: None"
      [] prefix = "Unknown tool: " /\ arg = "memory_search"
            -> "Unknown tool: memory_search"
      [] prefix = "Memory stored successfully: " /\ arg = "user_prefs/theme"
            -> "Memory stored successfully: user_prefs/theme"
      [] prefix = "Failed to store memory: " /\ arg = "user_prefs/theme"
            -> "Failed to store memory: user_prefs/theme"
      [] prefix = "Failed to store memory: " /\ arg = "None"
            -> "Failed to store memory: None"
      [] prefix = "Memory deleted: " /\ arg = "user_prefs/theme"
            -> "Memory deleted: user_prefs/theme"
      [] prefix = "Failed to delete memory: " /\ arg = "user_prefs/theme"
            -> "Failed to delete memory: user_prefs/theme"
      [] prefix = "Tool execution error: "
           /\ arg = "'list' object has no attribute 'get'"
            -> "Tool execution error: 'list' object has no attribute 'get'"

\* obj[key] with a str key: the value, or the exception Python raises.
py_index(obj, key) ==
    CASE obj.t = "dict" ->
            IF \E k \in 1..Len(obj.keys) : obj.keys[k] = key
            THEN py_get(obj, key, PyNone)
            ELSE Raise("KeyError",
                       CASE key = "params" -> "'params'"
                         [] key = "name" -> "'name'")
      [] obj.t = "str" ->
            Raise("TypeError", "string indices must be integers, not 'str'")
      [] obj.t = "list" ->
            Raise("TypeError",
                  "list indices must be integers or slices, not str")
      [] obj.t = "None" ->
            Raise("TypeError", "'NoneType' object is not subscriptable")

\* obj.get(key, default): only a dict has the method.
py_dot_get(obj, key, default) ==
    IF obj.t = "dict" THEN py_get(obj, key, default)
    ELSE Raise("AttributeError",
               CASE obj.t = "list" -> "'list' object has no attribute 'get'"
                 [] obj.t = "str" -> "'str' object has no attribute 'get'"
                 [] obj.t = "None"
                      -> "'NoneType' object has no attribute 'get'")

\* str(e) of the JSONDecodeError json.loads raises on the text.
json_error_message(toks) ==
    IF toks = << >> THEN "Expecting value: line 1 column 1 (char 0)"
    ELSE IF toks[1].k = "{"
    THEN "Expecting property name enclosed in double quotes: line 1 column 2 (char 1)"
    ELSE "Expecting value: line 1 column 1 (char 0)"

\* json.loads(line.strip())
json_loads(line) ==
    IF json_load(line) = JSONDecodeError
    THEN Raise("JSONDecodeError", json_error_message(line))
    ELSE json_load(line)

\* ------------------------------------------------------------ the database
\* The keys requests name here.  (The rows initialize_default_memory writes
\* have other keys; no request below touches them, and they are left out.)
MemoryKeys == {"user_prefs/theme"}
NoRow == [t |-> "no_row"]
Row(value, value_type) == [t |-> "row", value |-> value,
                           value_type |-> value_type]

\* Numbers and booleans.  A float is written as its repr, which Python
\* reads back to the same float.
PyInt(n) == [t |-> "int", n |-> n]
PyFloat(repr) == [t |-> "float", repr |-> repr]
PyBool(b) == [t |-> "bool", b |-> b]

Digits == <<"0", "1", "2", "3", "4", "5", "6", "7", "8", "9">>

\* str(n) of an int n >= 0, as characters.
RECURSIVE int_chars(_)
int_chars(n) ==
    IF n < 10 THEN <<Digits[n + 1]>>
    ELSE Append(int_chars(n \div 10), Digits[(n % 10) + 1])

\* str(value) of a number or a boolean, as characters.
str_chars(value) ==
    CASE value.t = "int" -> int_chars(value.n)
      [] value.t = "float" -> value.repr
      [] value.t = "bool" ->
            IF value.b THEN <<"T", "r", "u", "e">>
            ELSE <<"F", "a", "l", "s", "e">>

Chars(chars) == [t |-> "chars", chars |-> chars]

\* int(text): the number, or ValueError for text that is not all digits.
RECURSIVE digits_value(_)
digits_value(chars) ==
    IF chars = << >> THEN 0
    ELSE 10 * digits_value(SubSeq(chars, 1, Len(chars) - 1))
         + ((CHOOSE d \in 1..10 : Digits[d] = chars[Len(chars)]) - 1)
py_int(chars) ==
    IF chars # << >>
       /\ \A k \in 1..Len(chars) : \E d \in 1..10 : Digits[d] = chars[k]
    THEN PyInt(digits_value(chars))
    ELSE Raise("ValueError", "invalid literal for int() with base 10")

\* The str that has the characters (for the texts that come back as str).
text_of(chars) ==
    CASE chars = <<"T", "r", "u", "e">> -> "True"
      [] chars = <<"F", "a", "l", "s", "e">> -> "False"
      [] chars = <<"1", "e", "+", "1", "6">> -> "1e+16"

\* store_memory(key, value): the text and type it stores, by the isinstance
\* tests in their order -- (dict, list), then (int, float), which a bool
\* passes, then bool, then anything else -- and INSERT OR REPLACE.  A NULL
\* key violates NOT NULL; that and any other database error is caught, and
\* the method returns False.
store_memory(db, key, value, db_ok) ==
    LET value_str ==
            IF value.t \in {"dict", "list"}
            THEN [t |-> "text", toks |-> json_dump(value)]
            ELSE IF value.t \in {"int", "float", "bool"}
            THEN Chars(str_chars(value))
            ELSE IF value.t = "bool"
            THEN Chars(IF value.b THEN <<"t", "r", "u", "e">>
                       ELSE <<"f", "a", "l", "s", "e">>)
            ELSE Str(py_str(value))
        value_type ==
            IF value.t \in {"dict", "list"} THEN "json"
            ELSE IF value.t \in {"int", "float", "bool"} THEN "number"
            ELSE IF value.t = "bool" THEN "boolean"
            ELSE "string"
    IN  IF db_ok /\ key # PyNone
        THEN [success |-> TRUE,
              memory |-> [db EXCEPT ![key.s] = Row(value_str, value_type)]]
        ELSE [success |-> FALSE, memory |-> db]

\* retrieve_memory(key, default): the default if there is no row or the
\* database fails; else the value rebuilt by value_type -- json.loads for
\* "json"; for "number" float(text) if the text has a '.', else int(text),
\* and the text itself if that raises ValueError; for "boolean" whether the
\* text is one of true, 1, yes, on; the text otherwise.
retrieve_memory(db, key, default, db_ok) ==
    IF ~db_ok \/ key = PyNone THEN default
    ELSE IF db[key.s] = NoRow THEN default
    ELSE LET value_str == db[key.s].value
             value_type == db[key.s].value_type
         IN  CASE value_type = "json" ->
                    IF json_load(value_str.toks) = JSONDecodeError
                    THEN default ELSE json_load(value_str.toks)
               [] value_type = "number" ->
                    IF \E k \in 1..Len(value_str.chars) :
                          value_str.chars[k] = "."
                    THEN PyFloat(value_str.chars)
                    ELSE IF py_int(value_str.chars).t = "raise"
                    THEN Str(text_of(value_str.chars))
                    ELSE py_int(value_str.chars)
               [] value_type = "boolean" ->
                    PyBool(value_str.chars \in {<<"t", "r", "u", "e">>,
                                                <<"1">>, <<"y", "e", "s">>,
                                                <<"o", "n">>})
               [] OTHER -> value_str

\* delete_memory(key): True if a row was deleted.
delete_memory(db, key, db_ok) ==
    IF db_ok /\ key # PyNone /\ db[key.s] # NoRow
    THEN [success |-> TRUE, memory |-> [db EXCEPT ![key.s] = NoRow]]
    ELSE [success |-> FALSE, memory |-> db]

\* ------------------------------------------------------ handle_mcp_request
\* What the handler returns or raises, and the table afterwards.
Outcome(result, db) == [result |-> result, memory |-> db]

\* The tools of the "tools/list" response, by name (each entry also has a
\* constant description and inputSchema).
ToolNames == <<"memory_store", "memory_retrieve", "memory_list",
               "memory_delete", "memory_stats", "memory_cleanup",
               "session_create">>
ToolsList ==
    Dict(<<"tools">>,
         <<List([k \in 1..Len(ToolNames) |->
                   Dict(<<"name">>, <<Str(ToolNames[k])>>)])>>)

\* {"content": [{"type": "text", "text": text}]}
TextContent(text) ==
    Dict(<<"content">>,
         <<List(<<Dict(<<"type", "text">>, <<Str("text"), Str(text)>>)>>)>>)

\* The branch of one tool, inside the try of "tools/call".
call_tool(tool_name, arguments, db, db_ok) ==
    CASE tool_name = Str("memory_store") ->
            LET key == py_dot_get(arguments, "key", PyNone)
                value == py_dot_get(arguments, "value", PyNone)
                r == store_memory(db, key, value, db_ok)
            IN  IF key.t = "raise"
                THEN Outcome(TextContent(fstring("Tool execution error: ",
                                                 key.msg)), db)
                ELSE Outcome(
                       TextContent(
                         IF r.success
                         THEN fstring("Memory stored successfully: ",
                                      py_str(key))
                         ELSE fstring("Failed to store memory: ",
                                      py_str(key))),
                       r.memory)
      [] tool_name = Str("memory_delete") ->
            LET key == py_dot_get(arguments, "key", PyNone)
                r == delete_memory(db, key, db_ok)
            IN  IF key.t = "raise"
                THEN Outcome(TextContent(fstring("Tool execution error: ",
                                                 key.msg)), db)
                ELSE Outcome(
                       TextContent(
                         IF r.success
                         THEN fstring("Memory deleted: ", py_str(key))
                         ELSE fstring("Failed to delete memory: ",
                                      py_str(key))),
                       r.memory)
      [] OTHER ->
            Outcome(TextContent(fstring("Unknown tool: ", py_str(tool_name))),
                    db)

\* handle_mcp_request(request)
handle_mcp_request(request, db, db_ok) ==
    LET method == py_dot_get(request, "method", PyNone)
    IN  IF method.t = "raise" THEN Outcome(method, db)
        ELSE IF method = Str("tools/list") THEN Outcome(ToolsList, db)
        ELSE IF method = Str("tools/call")
        THEN LET params == py_index(request, "params")
                 tool_name == py_index(params, "name")
             IN  IF params.t = "raise" THEN Outcome(params, db)
                 ELSE IF tool_name.t = "raise" THEN Outcome(tool_name, db)
                 ELSE call_tool(tool_name,
                                py_dot_get(params, "arguments",
                                           Dict(<< >>, << >>)),
                                db, db_ok)
        ELSE Outcome(Dict(<<"error">>,
                          <<Str(fstring("Unknown method: ",
                                        py_str(method)))>>), db)

\* ------------------------------------------------------------ the requests
Request(method) == Dict(<<"method">>, <<Str(method)>>)
ToolCall(params) == Dict(<<"method", "params">>, <<Str("tools/call"), params>>)
Tool(name, arguments) == Dict(<<"name", "arguments">>, <<Str(name), arguments>>)
KeyValue(key, value) == Dict(<<"key", "value">>, <<Str(key), Str(value)>>)

\* The lines a client writes: text that is not JSON (a blank line, a cut-off
\* object), JSON that is not an object, requests with no method, an unknown
\* method, "tools/list", and "tools/call" with no params, params that are not
\* an object, no tool name, an unknown tool, arguments that are not an object
\* and the tools memory_store and memory_delete.
RequestLines ==
    { << >>,
      <<Tok("{")>>,
      json_dump(List(<< >>)),
      json_dump(Dict(<< >>, << >>)),
      json_dump(Request("resources/list")),
      json_dump(Request("tools/list")),
      json_dump(Request("tools/call")),
      json_dump(ToolCall(Str("memory_store"))),
      json_dump(ToolCall(Dict(<< >>, << >>))),
      json_dump(ToolCall(Dict(<<"name">>, <<Str("memory_search")>>))),
      json_dump(ToolCall(Tool("memory_store", List(<< >>)))),
      json_dump(ToolCall(Tool("memory_store", Dict(<< >>, << >>)))),
      json_dump(ToolCall(Tool("memory_store",
                              KeyValue("user_prefs/theme", "dark")))),
      json_dump(ToolCall(Tool("memory_delete",
                              Dict(<<"key">>, <<Str("user_prefs/theme")>>)))) }

\* ------------------------------------------------------------------ main()
\* The loop is entered with the database as earlier sessions left it.
InitMcp ==
    /\ stdin = [lines |-> << >>, closed |-> FALSE]
    /\ stdout = << >>
    /\ memory \in [MemoryKeys -> {NoRow, Row(Str("light"), "string")}]
    /\ server = [ServerNotStarted EXCEPT !.pc = "readline"]
    /\ OrchestratorAtRest
    /\ NoConstruction
    /\ NoEnhancedRun
    /\ NoStandaloneAgent
    /\ NoMemoryCall
    /\ NoMonitor
    /\ NoSimpleMonitor

\* The client writes one more line.
ClientWrites ==
    /\ ~stdin.closed
    /\ Len(server.read) + Len(stdin.lines) < MaxLines
    /\ \E line \in RequestLines :
          stdin' = [stdin EXCEPT !.lines = Append(@, line)]
    /\ UNCHANGED <<stdout, memory, server>>
    /\ UNCHANGED frameOfSpecMcp

\* The client closes its end of the pipe.
ClientCloses ==
    /\ ~stdin.closed
    /\ stdin' = [stdin EXCEPT !.closed = TRUE]
    /\ UNCHANGED <<stdout, memory, server>>
    /\ UNCHANGED frameOfSpecMcp

\* line = sys.stdin.readline(), with a line to return.
ReadLine ==
    /\ server.pc = "readline"
    /\ stdin.lines # << >>
    /\ stdin' = [stdin EXCEPT !.lines = Tail(@)]
    /\ server' = [server EXCEPT !.pc = "handle",
                                !.line = Head(stdin.lines),
                                !.read = Append(@, Head(stdin.lines))]
    /\ UNCHANGED <<stdout, memory>>
    /\ UNCHANGED frameOfSpecMcp

\* readline() returns "" at end of input: `if not line: break`.
EndOfInput ==
    /\ server.pc = "readline"
    /\ stdin.lines = << >>
    /\ stdin.closed
    /\ server' = [server EXCEPT !.pc = "exited", !.left_by = "end_of_input"]
    /\ UNCHANGED <<stdin, stdout, memory>>
    /\ UNCHANGED frameOfSpecMcp

\* What the rest of the try block does with the line: the response it
\* prints, or the exception that reaches `except Exception`.
process_line(line, db, db_ok) ==
    LET request == json_loads(line)
    IN  IF request.t = "raise" THEN Outcome(request, db)
        ELSE handle_mcp_request(request, db, db_ok)

\* A loop body whose `except Exception` logs the error and prints nothing.
HandleRequest_logs_only ==
    /\ server.pc = "handle"
    /\ \E db_ok \in BOOLEAN :
          LET o == process_line(server.line, memory, db_ok)
          IN  /\ stdout' = IF o.result.t = "raise" THEN stdout
                           ELSE Append(stdout, json_dump(o.result))
              /\ memory' = o.memory
    /\ server' = [server EXCEPT !.pc = "readline"]
    /\ UNCHANGED stdin
    /\ UNCHANGED frameOfSpecMcp

\* The rest of one iteration: json.loads, handle_mcp_request and
\* print(json.dumps(response)), or print(json.dumps({"error": str(e)})) in
\* `except Exception`; then the loop reads again.
HandleRequest ==
    /\ server.pc = "handle"
    /\ \E db_ok \in BOOLEAN :
          LET o == process_line(server.line, memory, db_ok)
              response == IF o.result.t = "raise"
                          THEN Dict(<<"error">>, <<Str(o.result.msg)>>)
                          ELSE o.result
          IN  /\ stdout' = Append(stdout, json_dump(response))
              /\ memory' = o.memory
    /\ server' = [server EXCEPT !.pc = "readline"]
    /\ UNCHANGED stdin
    /\ UNCHANGED frameOfSpecMcp

\* Ctrl-C while the loop waits in readline or works on a line (before or
\* after the handler changed the table): `except KeyboardInterrupt: break`.
KeyboardInterrupt ==
    /\ server.pc \in {"readline", "handle"}
    /\ server' = [server EXCEPT !.pc = "exited",
                                !.left_by = "KeyboardInterrupt"]
    /\ \/ memory' = memory
       \/ /\ server.pc = "handle"
          /\ \E db_ok \in BOOLEAN :
                memory' = process_line(server.line, memory, db_ok).memory
    /\ UNCHANGED <<stdin, stdout>>
    /\ UNCHANGED frameOfSpecMcp

NextMcp ==
    \/ ClientWrites
    \/ ClientCloses
    \/ ReadLine
    \/ EndOfInput
    \/ HandleRequest
    \/ KeyboardInterrupt

SpecMcp == InitMcp /\ [][NextMcp]_allVars

\* ------------------------------------------------------------------- C20
\* The response a line calls for, stated from the protocol: an object with
\* "error" for a line that is not a JSON object or a tools/call without
\* params or tool name, "Unknown method: m" for another method, "tools" for
\* tools/list, and one "content" text for a tool call.
ErrorObject(d) == d.t = "dict" /\ d.keys = <<"error">> /\ d.vals[1].t = "str"
ContentTexts(d) ==
    IF d.t = "dict" /\ d.keys = <<"content">> /\ d.vals[1].t = "list"
       /\ Len(d.vals[1].items) = 1
    THEN {py_get(d.vals[1].items[1], "text", PyNone)}
    ELSE {}

\* The texts a call of the tool may be answered with.
ToolTexts(name) ==
    CASE name = Str("memory_search") ->
            {Str("Unknown tool: memory_search")}
      [] name = Str("memory_delete") ->
            {Str("Memory deleted: user_prefs/theme"),
             Str("Failed to delete memory: user_prefs/theme")}
      [] name = Str("memory_store") ->
            {Str("Memory stored successfully: user_prefs/theme"),
             Str("Failed to store memory: user_prefs/theme"),
             Str("Failed to store memory: None"),
             Str("Tool execution error: 'list' object has no attribute 'get'")}

Answers(out, line) ==
    LET d == json_load(out)
        req == json_load(line)
        method == py_get(req, "method", PyNone)
        params == py_get(req, "params", PyNone)
        name == py_get(params, "name", PyNone)
    IN  IF req.t # "dict" THEN ErrorObject(d)
        ELSE IF method = Str("tools/list")
        THEN d.t = "dict" /\ d.keys = <<"tools">>
        ELSE IF method = Str("tools/call")
        THEN IF params.t # "dict" \/ name = PyNone THEN ErrorObject(d)
             ELSE /\ ContentTexts(d) # {}
                  /\ ContentTexts(d) \subseteq ToolTexts(name)
        ELSE /\ ErrorObject(d)
             /\ d.vals[1] \in {Str("Unknown method: resources/list"),
                               Str("Unknown method: None")}
             /\ (method = Str("resources/list"))
                   = (d.vals[1] = Str("Unknown method: resources/list"))

\* C20: the main loop of the memory server prints exactly one JSON object
\* per line it has read -- whether the line is not JSON, names an unknown
\* method or is a tools/call without params -- in the order of the lines
\* (the line in hand when the loop is handling it or was interrupted is the
\* only one without its response yet), and the loop is left only at end of
\* input, with every line answered, or by the interrupt.
C20_OneResponseLinePerLineRead ==
    /\ Len(stdout) <= Len(server.read)
    /\ Len(server.read) - Len(stdout) <= 1
    /\ server.pc = "readline" => Len(stdout) = Len(server.read)
    /\ server.pc = "handle" => Len(stdout) = Len(server.read) - 1
    /\ \A i \in 1..Len(stdout) :
          /\ json_load(stdout[i]) # JSONDecodeError
          /\ Answers(stdout[i], server.read[i])
    /\ server.pc = "exited" =>
          \/ server.left_by = "KeyboardInterrupt"
          \/ /\ server.left_by = "end_of_input"
             /\ stdin.closed
             /\ stdin.lines = << >>
             /\ Len(stdout) = Len(server.read)

\* Two lines were read and answered, the first not valid JSON or without
\* params, and the loop was left at end of input.
C20_Witness ==
    /\ server.pc = "exited"
    /\ server.left_by = "end_of_input"
    /\ Len(server.read) = 2
    /\ Len(stdout) = 2
    /\ server.read[1] \in {<<Tok("{")>>, json_dump(Request("tools/call"))}
    /\ server.read[2] = json_dump(Request("resources/list"))

\* =========================================================================
\* The enhanced orchestrator, continued: C21 .. C23
\* =========================================================================

\* C21: whatever tasks were created and whatever distribution passes ran, no
\* agent has more than max_concurrent_tasks_per_agent tasks assigned to it.
C21_AtMostMaxConcurrentTasksPerAgent ==
    \A i \in 1..Len(enhanced.agents) :
       AssignedTo(enhanced.agents[i].id) <= max_concurrent_tasks_per_agent

\* The places where the task object oid is: positions of the queue and of
\* the tasks map.
InQueue(oid) == { j \in 1..Len(enhanced.task_queue) :
                    enhanced.task_queue[j].oid = oid }
InTasks(oid) == { j \in 1..Len(enhanced.tasks) : enhanced.tasks[j].oid = oid }

\* C22: every task create_revenue_task has made is in exactly one place:
\* once in task_queue, pending and without agent, or once in the tasks map,
\* assigned to a registered agent; none is lost or held twice, whatever ids
\* the tasks were given.
C22_EveryCreatedTaskInExactlyOnePlace ==
    \A oid \in 1..loop.created :
       \/ /\ Cardinality(InQueue(oid)) = 1
          /\ InTasks(oid) = {}
          /\ \A j \in InQueue(oid) :
                /\ enhanced.task_queue[j].status = "pending"
                /\ enhanced.task_queue[j].assigned_agent = ""
       \/ /\ InQueue(oid) = {}
          /\ Cardinality(InTasks(oid)) = 1
          /\ \A j \in InTasks(oid) :
                /\ enhanced.tasks[j].status = "assigned"
                /\ \E i \in 1..Len(enhanced.agents) :
                      enhanced.agents[i].id = enhanced.tasks[j].assigned_agent

\* An agent is IDLE or ACTIVE.
SomeAgentAvailable ==
    \E i \in 1..Len(enhanced.agents) :
       enhanced.agents[i].status \in {"idle", "active"}

\* The task object oid has left the queue and is assigned: it is in the
\* tasks map with status assigned, its agent is ACTIVE, and the agent's inbox
\* holds exactly one task_assignment message for it.
AssignedAndAnnounced(oid) ==
    /\ InQueue(oid) = {}
    /\ \E j \in InTasks(oid), i \in 1..Len(enhanced.agents) :
          /\ enhanced.tasks[j].status = "assigned"
          /\ enhanced.tasks[j].assigned_agent = enhanced.agents[i].id
          /\ enhanced.agents[i].status = "active"
          /\ Cardinality({ n \in 1..Len(enhanced.communication_hub[i].inbox) :
                 /\ enhanced.communication_hub[i].inbox[n].type
                       = "task_assignment"
                 /\ enhanced.communication_hub[i].inbox[n].task.oid = oid })
                = 1

\* C23: while orchestrate_agents runs and an agent is IDLE or ACTIVE, a task
\* leaves the queue only by being assigned (its agent ACTIVE, one
\* task_assignment message in the agent's inbox), and every task in the
\* queue eventually leaves it (the queue is eventually empty) -- the
\* exceptions of the later steps of an iteration notwithstanding, the
\* coroutine being resumed whenever it can run.
C23_QueuedTasksAreEventuallyAssigned ==
    /\ [][\A oid \in 1..MaxCreated :
             (InQueue(oid) # {} /\ InQueue(oid)' = {}) =>
                 AssignedAndAnnounced(oid)']_allVars
    /\ (enhanced.task_queue # << >> /\ Started /\ SomeAgentAvailable)
          ~> (enhanced.task_queue = << >>)

\* C23's case: the iteration before ended with an exception, a task created
\* during the sleep that followed has been assigned by the next pass, and
\* the task assigned before it is still assigned.
C23_Witness ==
    /\ loop.last_error = "coordinate_agent_activities"
    /\ loop.pc = "except"
    /\ loop.created = 2
    /\ Len(enhanced.tasks) = 2
    /\ AssignedAndAnnounced(1)
    /\ AssignedAndAnnounced(2)
    /\ \E i \in 1..Len(enhanced.agents) :
          Len(enhanced.communication_hub[i].inbox) = 1

\* =========================================================================
\* The standalone agent classes: agents/CodeReviewAgent.py,
\* DocumentationAgent.py, TestingAgent.py, MonitoringAgent.py
\* =========================================================================
AgentClasses == {"CodeReviewAgent", "DocumentationAgent", "TestingAgent",
                 "MonitoringAgent"}

\* The task {} (no "name" key), as self.current_task keeps it.
EmptyDict == "{}"

\* The handler methods: the class, the directories the method creates when
\* they are missing (os.makedirs) and the directories it opens files in
\* without creating them.
Handlers ==
    [ establish_code_review_process |->
        [class |-> "CodeReviewAgent", makes |-> {"docs", ".github"},
         needs |-> {}],
      formalize_code_review |->
        [class |-> "CodeReviewAgent", makes |-> {}, needs |-> {"docs"}],
      create_documentation_framework |->
        [class |-> "DocumentationAgent", makes |-> {"docs"}, needs |-> {}],
      expand_documentation |->
        [class |-> "DocumentationAgent", makes |-> {}, needs |-> {"docs"}],
      implement_basic_testing |->
        [class |-> "TestingAgent", makes |-> {"tests"}, needs |-> {}],
      improve_test_coverage |->
        [class |-> "TestingAgent", makes |-> {}, needs |-> {"tests"}],
      setup_performance_monitoring |->
        [class |-> "MonitoringAgent", makes |-> {"monitoring"},
         needs |-> {}],
      implement_performance_monitoring |->
        [class |-> "MonitoringAgent", makes |-> {}, needs |-> {"monitoring"}] ]

WorkingDirectories == {"docs", ".github", "tests", "monitoring"}

\* How the file operations of a handler end.
IoOutcomes == {"ok", "makedirs_failed", "write_failed"}

\* __init__ of each class.
NewStandaloneAgent(class) ==
    [class |-> class, status |-> "idle", current_task |-> None]

\* complete_task: `if self.current_task:` clears the task and sets "idle";
\* None and {} are false.
standalone_complete_task(obj) ==
    IF obj.current_task \notin {None, EmptyDict}
    THEN [obj EXCEPT !.current_task = None, !.status = "idle"]
    ELSE obj

\* A handler that does its work and leaves the task to the caller.
run_handler_without_complete_task(obj, dirs, method, how) ==
    LET h == Handlers[method]
    IN  IF h.makes \ dirs # {} /\ how = "makedirs_failed"
        THEN [obj |-> obj, dirs |-> dirs, raised |-> TRUE]
        ELSE IF h.needs \ dirs # {} \/ how # "ok"
        THEN [obj |-> obj, dirs |-> dirs \cup h.makes, raised |-> TRUE]
        ELSE [obj |-> obj, dirs |-> dirs \cup h.makes, raised |-> FALSE]

\* One handler method: it creates its directories, writes its files and
\* calls self.complete_task() as its last statement; an OSError of makedirs
\* or open (a missing directory among them) leaves the method before that.
run_handler(obj, dirs, method, how) ==
    LET h == Handlers[method]
    IN  IF h.makes \ dirs # {} /\ how = "makedirs_failed"
        THEN [obj |-> obj, dirs |-> dirs, raised |-> TRUE]
        ELSE IF h.needs \ dirs # {} \/ how # "ok"
        THEN [obj |-> obj, dirs |-> dirs \cup h.makes, raised |-> TRUE]
        ELSE [obj |-> standalone_complete_task(obj),
              dirs |-> dirs \cup h.makes, raised |-> FALSE]

\* assign_task(task): the task and "working" are recorded, task['name'] is
\* printed (KeyError for {}), and the if/elif on the name calls the handler
\* of this class, if the name is one of its two.
standalone_assign_task(obj, dirs, name, how) ==
    LET o == [obj EXCEPT !.current_task = name, !.status = "working"]
    IN  IF name = EmptyDict THEN [obj |-> o, dirs |-> dirs, raised |-> TRUE]
        ELSE IF \E method \in DOMAIN Handlers :
                    method = name /\ Handlers[method].class = obj.class
        THEN run_handler(o, dirs, name, how)
        ELSE [obj |-> o, dirs |-> dirs, raised |-> FALSE]

\* The tasks passed to assign_task: every name that has a handler in some
\* class, a name that has none, and a task without name.
AssignedTaskNames == DOMAIN Handlers \cup {"deploy_release", EmptyDict}

InitAgents ==
    /\ \E class \in AgentClasses : standalone = NewStandaloneAgent(class)
    /\ directories \in SUBSET WorkingDirectories
    /\ standalone_call = [op |-> "__init__", name |-> None,
                          outcome |-> "returned"]
    /\ OrchestratorAtRest
    /\ NoConstruction
    /\ NoEnhancedRun
    /\ NoMcpServer
    /\ NoMemoryCall
    /\ NoMonitor
    /\ NoSimpleMonitor

\* agent.assign_task(task)
StandaloneAssignTask ==
    /\ \E name \in AssignedTaskNames, how \in IoOutcomes :
          LET r == standalone_assign_task(standalone, directories, name, how)
          IN  /\ standalone' = r.obj
              /\ directories' = r.dirs
              /\ standalone_call' =
                    [op |-> "assign_task", name |-> name,
                     outcome |-> IF r.raised THEN "raised" ELSE "returned"]
    /\ UNCHANGED frameOfSpecAgents

\* agent.complete_task()
StandaloneCompleteTask ==
    /\ standalone' = standalone_complete_task(standalone)
    /\ standalone_call' = [op |-> "complete_task", name |-> None,
                           outcome |-> "returned"]
    /\ UNCHANGED directories
    /\ UNCHANGED frameOfSpecAgents

NextAgents ==
    \/ StandaloneAssignTask
    \/ StandaloneCompleteTask

SpecAgents == InitAgents /\ [][NextAgents]_allVars

\* ------------------------------------------------------------------- C24
\* The names each class dispatches to a handler (lines 21-24 of each file).
DispatchedNames ==
    [ CodeReviewAgent |-> {"establish_code_review_process",
                           "formalize_code_review"},
      DocumentationAgent |-> {"create_documentation_framework",
                              "expand_documentation"},
      TestingAgent |-> {"implement_basic_testing", "improve_test_coverage"},
      MonitoringAgent |-> {"setup_performance_monitoring",
                           "implement_performance_monitoring"} ]

Idle == standalone.status = "idle" /\ standalone.current_task = None
WorkingOn(name) ==
    standalone.status = "working" /\ standalone.current_task = name

\* C24: for each of the four classes, when assign_task has returned the
\* agent is idle with no current task if and only if the task's name is one
\* the class dispatches to a handler; for any other name it is working on
\* the task, and stays so until the next call, and a call of complete_task
\* then makes it idle with no current task.
C24_IdleAfterAssignIffDispatched ==
    /\ [](standalone_call.op = "assign_task"
            /\ standalone_call.outcome = "returned" =>
             /\ Idle <=> standalone_call.name
                            \in DispatchedNames[standalone.class]
             /\ standalone_call.name \notin DispatchedNames[standalone.class]
                   => WorkingOn(standalone_call.name))
    /\ [][ \A name \in AssignedTaskNames \ {EmptyDict} :
             (/\ WorkingOn(name)
              /\ standalone_call.outcome = "returned"
              /\ standalone_call'.op = "complete_task")
                => (standalone'.status = "idle"
                    /\ standalone'.current_task = None) ]_allVars
    /\ [][ standalone_call' = standalone_call
             => standalone' = standalone ]_allVars

\* C24's case: a name that only another class dispatches was assigned to a
\* TestingAgent, the call returned, and the agent is working on the task.
C24_Witness ==
    /\ standalone.class = "TestingAgent"
    /\ standalone_call.op = "assign_task"
    /\ standalone_call.outcome = "returned"
    /\ standalone_call.name = "establish_code_review_process"
    /\ WorkingOn("establish_code_review_process")

\* =========================================================================
\* The memory server's methods, called directly: store_memory,
\* retrieve_memory, delete_memory and the memory_retrieve tool
\* =========================================================================

\* The values stored: strings (one that reads like a boolean), integers,
\* floats with and without '.' in their repr, booleans, a list and a dict.
MemoryValues ==
    { Str("dark"), Str("True"), PyInt(0), PyInt(42),
      PyFloat(<<"1", ".", "5">>), PyFloat(<<"1", "e", "+", "1", "6">>),
      PyBool(TRUE), PyBool(FALSE),
      List(<<Str("a"), Str("b")>>), Dict(<<"theme">>, <<Str("dark")>>) }

\* The defaults passed to retrieve_memory: none, and values that may be
\* stored.
MemoryDefaults == {PyNone, Str("dark"), PyInt(42)}

NoValue == [t |-> "no_value"]

\* a == b in Python, for the values above: an int and a bool compare as
\* numbers (no float drawn here equals an int); other values are equal if
\* they have the same type and content.
py_eq(a, b) ==
    IF a.t \in {"int", "bool"} /\ b.t \in {"int", "bool"}
    THEN (IF a.t = "int" THEN a.n ELSE IF a.b THEN 1 ELSE 0)
            = (IF b.t = "int" THEN b.n ELSE IF b.b THEN 1 ELSE 0)
    ELSE a = b

\* The memory_retrieve branch of handle_mcp_request: the result dict.
memory_retrieve(db, key, default, db_ok) ==
    LET value == retrieve_memory(db, key, default, db_ok)
    IN  [key |-> key, value |-> value, found |-> ~py_eq(value, default)]

InitMemory ==
    /\ memory \in [MemoryKeys -> {NoRow, Row(Str("light"), "string")}]
    /\ memory_call = [op |-> "__init__", key |-> PyNone, value |-> PyNone,
                      result |-> PyNone, db_ok |-> TRUE,
                      row |-> NoRow,
                      stored |-> [k \in MemoryKeys |-> NoValue]]
    /\ stdin = [lines |-> << >>, closed |-> FALSE]
    /\ stdout = << >>
    /\ server = ServerNotStarted
    /\ OrchestratorAtRest
    /\ NoConstruction
    /\ NoEnhancedRun
    /\ NoStandaloneAgent
    /\ NoMonitor
    /\ NoSimpleMonitor

\* server.store_memory(key, value)
StoreMemory ==
    /\ \E k \in MemoryKeys, value \in MemoryValues, db_ok \in BOOLEAN :
          LET r == store_memory(memory, Str(k), value, db_ok)
          IN  /\ memory' = r.memory
              /\ memory_call' =
                    [ op |-> "store_memory", key |-> Str(k), value |-> value,
                      result |-> PyBool(r.success), db_ok |-> db_ok,
                      row |-> memory[k],
                      stored |-> IF r.success
                                 THEN [memory_call.stored EXCEPT ![k] = value]
                                 ELSE memory_call.stored ]
    /\ UNCHANGED frameOfSpecMemory

\* server.retrieve_memory(key, default)
RetrieveMemory ==
    /\ \E k \in MemoryKeys, default \in MemoryDefaults, db_ok \in BOOLEAN :
          memory_call' =
             [ op |-> "retrieve_memory", key |-> Str(k), value |-> default,
               result |-> retrieve_memory(memory, Str(k), default, db_ok),
               db_ok |-> db_ok, row |-> memory[k],
               stored |-> memory_call.stored ]
    /\ UNCHANGED memory
    /\ UNCHANGED frameOfSpecMemory

\* server.delete_memory(key)
DeleteMemory ==
    /\ \E k \in MemoryKeys, db_ok \in BOOLEAN :
          LET r == delete_memory(memory, Str(k), db_ok)
          IN  /\ memory' = r.memory
              /\ memory_call' =
                    [ op |-> "delete_memory", key |-> Str(k),
                      value |-> PyNone, result |-> PyBool(r.success),
                      db_ok |-> db_ok, row |-> memory[k],
                      stored |-> IF r.success
                                 THEN [memory_call.stored EXCEPT ![k] = NoValue]
                                 ELSE memory_call.stored ]
    /\ UNCHANGED frameOfSpecMemory

\* The tool memory_retrieve, with arguments key and default.
MemoryRetrieveTool ==
    /\ \E k \in MemoryKeys, default \in MemoryDefaults, db_ok \in BOOLEAN :
          memory_call' =
             [ op |-> "memory_retrieve", key |-> Str(k), value |-> default,
               result |-> memory_retrieve(memory, Str(k), default, db_ok),
               db_ok |-> db_ok, row |-> memory[k],
               stored |-> memory_call.stored ]
    /\ UNCHANGED memory
    /\ UNCHANGED frameOfSpecMemory

NextMemory ==
    \/ StoreMemory
    \/ RetrieveMemory
    \/ DeleteMemory
    \/ MemoryRetrieveTool

SpecMemory == InitMemory /\ [][NextMemory]_allVars

\* ------------------------------------------------------------ C25, C26
\* C25: retrieve_memory(key), called after a successful store_memory(key,
\* value) with no later store or delete of the key, returns a value equal to
\* the stored one and of its type -- for strings, integers, floats,
\* booleans, lists and dicts; and a store to a key that has an entry
\* replaces it (the table keeps one row per key, that of the last store).
C25_RetrieveReturnsWhatWasStored ==
    /\ (/\ memory_call.op = "retrieve_memory"
        /\ memory_call.db_ok
        /\ memory_call.stored[memory_call.key.s] # NoValue)
          => memory_call.result = memory_call.stored[memory_call.key.s]
    /\ (/\ memory_call.op = "store_memory"
        /\ memory_call.result = PyBool(TRUE))
          => memory[memory_call.key.s]
               = store_memory([k \in MemoryKeys |-> NoRow], memory_call.key,
                              memory_call.value, TRUE).memory[memory_call.key.s]

\* C26: the tool memory_retrieve reports found = true exactly when the table
\* has an entry for the key (no entry expires here), whatever value is
\* stored and whatever default is passed.
C26_FoundIffEntryExists ==
    (memory_call.op = "memory_retrieve" /\ memory_call.db_ok)
       => (memory_call.result.found <=> memory_call.row # NoRow)


\* ------------------------------------------- RealTimePerformanceMonitor
\* Metric values are integers: thousandths for the metrics whose thresholds
\* and ranges are fractions (rates, scores, seconds), units for the others.
\* Only comparisons between values of one metric are made, so that the
\* unit of a metric does not matter.

\* A threshold that is a number, and float('inf').
Num(v) == [num |-> v]
Inf == [inf |-> TRUE]

\* The four collectors, in the order start_monitoring creates them.
Collectors ==
    <<"agent_performance", "revenue_performance", "system_performance",
      "communication_performance">>

\* self.monitoring_config
monitoring_config ==
    [ agent_performance |->
        [collection_interval |-> 10, retention_period |-> 7200],
      revenue_performance |->
        [collection_interval |-> 60, retention_period |-> 86400],
      system_performance |->
        [collection_interval |-> 5, retention_period |-> 3600],
      communication_performance |->
        [collection_interval |-> 15, retention_period |-> 7200] ]

\* The `metrics` dict each collector builds, in its order: the name and the
\* bounds of random.uniform.
CollectedMetrics ==
    [ agent_performance |->
        << [name |-> "task_completion_rate", lo |-> 750, hi |-> 980],
           [name |-> "response_time", lo |-> 500, hi |-> 8000],
           [name |-> "success_rate", lo |-> 850, hi |-> 990],
           [name |-> "efficiency_score", lo |-> 650, hi |-> 950],
           [name |-> "resource_utilization", lo |-> 200, hi |-> 900],
           [name |-> "error_rate", lo |-> 0, hi |-> 80] >>,
      revenue_performance |->
        << [name |-> "pipeline_value", lo |-> 45000, hi |-> 350000],
           [name |-> "conversion_rate", lo |-> 80, hi |-> 280],
           [name |-> "daily_revenue", lo |-> 1500, hi |-> 8000],
           [name |-> "deal_velocity", lo |-> 15, hi |-> 60],
           [name |-> "client_satisfaction", lo |-> 3500, hi |-> 5000],
           [name |-> "ltv_trend", lo |-> 15000, hi |-> 85000] >>,
      system_performance |->
        << [name |-> "cpu_utilization", lo |-> 200, hi |-> 950],
           [name |-> "memory_usage", lo |-> 300, hi |-> 900],
           [name |-> "network_latency", lo |-> 10, hi |-> 250],
           [name |-> "disk_io", lo |-> 5, hi |-> 95],
           [name |-> "api_response_time", lo |-> 50, hi |-> 1500],
           [name |-> "concurrent_connections", lo |-> 10, hi |-> 200] >>,
      communication_performance |->
        << [name |-> "message_throughput", lo |-> 20, hi |-> 180],
           [name |-> "delivery_success_rate", lo |-> 880, hi |-> 990],
           [name |-> "average_response_time", lo |-> 1, hi |-> 15],
           [name |-> "queue_depth", lo |-> 0, hi |-> 180],
           [name |-> "bandwidth_utilization", lo |-> 100, hi |-> 900],
           [name |-> "coordination_efficiency", lo |-> 700, hi |-> 980] >> ]

CollectorNames == {Collectors[i] : i \in 1..Len(Collectors)}

MetricNames ==
    {CollectedMetrics[c][k].name :
        c \in CollectorNames, k \in 1..6}

\* self.performance_thresholds
performance_thresholds ==
    [ task_completion_rate |-> [min |-> Num(850), max |-> Num(1000)],
      response_time |-> [min |-> Num(0), max |-> Num(5000)],
      success_rate |-> [min |-> Num(900), max |-> Num(1000)],
      efficiency_score |-> [min |-> Num(800), max |-> Num(1000)],
      resource_utilization |-> [min |-> Num(300), max |-> Num(850)],
      error_rate |-> [min |-> Num(0), max |-> Num(50)],
      pipeline_value |-> [min |-> Num(50000), max |-> Inf],
      conversion_rate |-> [min |-> Num(150), max |-> Num(1000)],
      daily_revenue |-> [min |-> Num(3000), max |-> Inf],
      deal_velocity |-> [min |-> Num(0), max |-> Num(45)],
      client_satisfaction |-> [min |-> Num(4000), max |-> Num(5000)],
      cpu_utilization |-> [min |-> Num(0), max |-> Num(800)],
      memory_usage |-> [min |-> Num(0), max |-> Num(800)],
      network_latency |-> [min |-> Num(0), max |-> Num(200)],
      api_response_time |-> [min |-> Num(0), max |-> Num(1000)],
      message_throughput |-> [min |-> Num(50), max |-> Inf],
      delivery_success_rate |-> [min |-> Num(950), max |-> Num(1000)],
      queue_depth |-> [min |-> Num(0), max |-> Num(100)] ]

\* self.performance_thresholds.get(metric_name, {}).get("min") and
\* .get("max")
threshold_min(name) ==
    IF name \in DOMAIN performance_thresholds
    THEN performance_thresholds[name].min ELSE PyNone

threshold_max(name) ==
    IF name \in DOMAIN performance_thresholds
    THEN performance_thresholds[name].max ELSE PyNone

\* self.optimization_actions: the registered actions, with the
\* execution_time of each.
optimization_actions ==
    [ redistribute_tasks |-> [execution_time |-> 30],
      scale_resources |-> [execution_time |-> 120],
      optimize_algorithms |-> [execution_time |-> 60],
      adjust_pricing_strategy |-> [execution_time |-> 10],
      enhance_lead_qualification |-> [execution_time |-> 45] ]

\* _get_recommended_actions
get_recommended_actions(metric_name) ==
    CASE metric_name = "task_completion_rate" ->
            <<"redistribute_tasks", "optimize_algorithms", "scale_resources">>
      [] metric_name = "response_time" ->
            <<"optimize_algorithms", "scale_resources", "reduce_load">>
      [] metric_name = "success_rate" ->
            <<"review_error_logs", "improve_error_handling",
              "optimize_processes">>
      [] metric_name = "cpu_utilization" ->
            <<"scale_out_instances", "optimize_algorithms", "load_balancing">>
      [] metric_name = "memory_usage" ->
            <<"garbage_collection", "optimize_memory_usage",
              "scale_resources">>
      [] metric_name = "conversion_rate" ->
            <<"adjust_pricing_strategy", "enhance_lead_qualification",
              "improve_proposals">>
      [] metric_name = "daily_revenue" ->
            <<"urgent_sales_review", "marketing_boost", "client_outreach">>
      [] OTHER -> <<"investigate_issue", "contact_support">>

\* The two tests of _check_metric_alerts.
below_min(metric) ==
    /\ metric.threshold_min # PyNone
    /\ metric.value < metric.threshold_min.num

above_max(metric) ==
    /\ metric.threshold_max # PyNone
    /\ metric.threshold_max # Inf
    /\ metric.value > metric.threshold_max.num

\* The severity _check_metric_alerts computes: the second test overrides
\* the first. value < threshold_min * 0.8 is 10 * value < 8 * threshold_min
\* and value > threshold_max * 1.2 is 10 * value > 12 * threshold_max.
alert_severity(metric) ==
    LET first == IF below_min(metric)
                 THEN IF 10 * metric.value < 8 * metric.threshold_min.num
                      THEN "high" ELSE "medium"
                 ELSE "normal"
    IN  IF above_max(metric)
        THEN IF 10 * metric.value > 12 * metric.threshold_max.num
             THEN "critical" ELSE "high"
        ELSE first

\* Times are in tenths of a second since start_monitoring was called.
\* PerformanceMetric(...), as the collectors build it.
PerformanceMetric(name, value, timestamp) ==
    [ name |-> name, value |-> value, timestamp |-> timestamp,
      threshold_min |-> threshold_min(name),
      threshold_max |-> threshold_max(name) ]

\* The id f"alert_{metric.name}_{int(time.time())}", built at time `time_now`.
alert_id(metric, time_now) == [name |-> metric.name, second |-> time_now \div 10]

\* SystemAlert(...), as _check_metric_alerts builds it at time `time_now`.
SystemAlert(metric, time_now) ==
    [ id |-> alert_id(metric, time_now), type |-> "threshold_violation",
      severity |-> alert_severity(metric), value |-> metric.value,
      timestamp |-> metric.timestamp,
      recommended_actions |-> get_recommended_actions(metric.name),
      auto_resolved |-> FALSE ]

\* self.alerts[alert_id] = alert, self.alerts being the set of its values.
put_alert(alerts, alert) ==
    {a \in alerts : a.id # alert.id} \cup {alert}

\* The next of the first two actions, from position `from` on, that is a
\* registered optimization action; 0 when there is none.
\*   for action in actions[:2]: if action in self.optimization_actions:
next_registered(actions, from) ==
    LET is == {i \in from..Min(2, Len(actions)) :
                  actions[i] \in DOMAIN optimization_actions}
    IN  IF is = {} THEN 0 ELSE CHOOSE i \in is : \A j \in is : i <= j

\* config["retention_period"] // config["collection_interval"]
history_limit(collector) ==
    monitoring_config[collector].retention_period
        \div monitoring_config[collector].collection_interval


\* d[key] = value on a dict kept as a function.
dict_put(d, key, value) ==
    [x \in DOMAIN d \cup {key} |-> IF x = key THEN value ELSE d[x]]

\* History without a size limit.
store_metric_unbounded(mon, collector, metric) ==
    LET old == IF metric.name \in DOMAIN mon.metrics_history
               THEN mon.metrics_history[metric.name] ELSE << >>
    IN  [mon EXCEPT
            !.metrics_history = dict_put(@, metric.name, Append(old, metric)),
            !.current_metrics = dict_put(@, metric.name, metric)]

\* The body of a collector's for loop up to the alert check:
\*   history = self.metrics_history[metric_name]      (a defaultdict)
\*   history.append(metric)
\*   if len(history) > retention_period // collection_interval:
\*       history.popleft()
\*   self.current_metrics[metric_name] = metric
store_metric(mon, collector, metric) ==
    LET old == IF metric.name \in DOMAIN mon.metrics_history
               THEN mon.metrics_history[metric.name] ELSE << >>
        appended == Append(old, metric)
        history == IF Len(appended) > history_limit(collector)
                   THEN Tail(appended) ELSE appended
    IN  [mon EXCEPT
            !.metrics_history = dict_put(@, metric.name, history),
            !.current_metrics = dict_put(@, metric.name, metric)]

\* _handle_alert keeps trying after a success.
handle_alert_without_break(alert, from, succeeded) ==
    IF alert.severity \in {"high", "critical"}
          /\ alert.recommended_actions # << >>
    THEN next_registered(alert.recommended_actions, from)
    ELSE 0

\* _handle_alert, from the `from`-th recommended action on: the position of
\* the action it executes next, 0 when it returns. `succeeded` is the
\* outcome of the action before (FALSE when there was none): the loop
\* breaks after a success.
handle_alert(alert, from, succeeded) ==
    IF alert.severity \in {"high", "critical"}
          /\ alert.recommended_actions # << >>
          /\ ~succeeded
    THEN next_registered(alert.recommended_actions, from)
    ELSE 0

\* _check_metric_alerts at time `time_now`, up to the first suspension: the
\* alert recorded, if any, and the position of the action _handle_alert
\* executes first.
check_metric_alerts(mon, metric, time_now) ==
    IF below_min(metric) \/ above_max(metric)
    THEN LET alert == SystemAlert(metric, time_now)
         IN  [ monitor |-> [mon EXCEPT !.alerts = put_alert(@, alert)],
               a |-> handle_alert(alert, 1, FALSE) ]
    ELSE [monitor |-> mon, a |-> 0]

\* A coroutine that runs at time co.wake suspends in asyncio.sleep for
\* `duration` tenths of a second.
suspend(co, pos, duration) ==
    [co EXCEPT !.pos = pos, !.since = co.wake, !.wake = co.wake + duration]

\* await asyncio.sleep(action["execution_time"] / 10), in tenths of a second
execution_sleep(action) == optimization_actions[action].execution_time

\* A collector's for loop from the k-th metric of its dict on, until the
\* coroutine suspends: in _execute_optimization_action's sleep ("executing",
\* with the metric, the alert and the action it is at) or in the sleep that
\* ends the iteration ("sleeping"). `checked`, the outcome of the alert
\* check, ranges over a one-element set so that it is computed once.
RECURSIVE run_collector(_, _, _, _)
run_collector(mon, collector, co, k) ==
    IF k > Len(CollectedMetrics[collector])
    THEN [ monitor |-> mon,
           co |-> suspend([co EXCEPT !.drawn = << >>], "sleeping",
                     10 * monitoring_config[collector].collection_interval) ]
    ELSE LET name == CollectedMetrics[collector][k].name
             metric == PerformanceMetric(name, co.drawn[name], co.timestamp)
             alert == SystemAlert(metric, co.wake)
         IN  CHOOSE y \in
               { IF checked.a = 0
                 THEN run_collector(checked.monitor, collector, co, k + 1)
                 ELSE [ monitor |-> checked.monitor,
                        co |-> suspend(
                              [co EXCEPT !.k = k, !.a = checked.a,
                                         !.alert = alert.id],
                              "executing",
                              execution_sleep(
                                 alert.recommended_actions[checked.a])) ] :
                 checked \in {check_metric_alerts(
                            store_metric(mon, collector, metric), metric,
                            co.wake)} } : TRUE

\* The alert a suspended collector is handling.
handled_alert(mon, co) ==
    CHOOSE alert \in mon.alerts : alert.id = co.alert

\* A collector resumes from _execute_optimization_action, which returns
\* `success`: _handle_alert marks the alert and breaks, or goes on to the
\* next action; then the for loop goes on.
resume_collector(mon, collector, co, success) ==
    LET alert == handled_alert(mon, co)
        resolved == [alert EXCEPT !.auto_resolved = TRUE]
        mon1 == IF success
                THEN [mon EXCEPT !.alerts = put_alert(@, resolved)]
                ELSE mon
        a == handle_alert(alert, co.a + 1, success)
    IN  IF a = 0
        THEN run_collector(mon1, collector, co, co.k + 1)
        ELSE [ monitor |-> mon1,
               co |-> suspend([co EXCEPT !.a = a], "executing",
                         execution_sleep(alert.recommended_actions[a])) ]

\* The most iterations one coroutine begins in a run.
MaxCollections == 2

\* The entry of a metric in its collector's dict.
Collected(name) ==
    CHOOSE e \in {CollectedMetrics[c][k] : c \in CollectorNames, k \in 1..6} :
        e.name = name

\* A value of the metric's range that violates no threshold: the minimum
\* threshold where the range holds it, else the low end of the range.
Typical(name) ==
    IF threshold_min(name) # PyNone
          /\ Collected(name).lo <= threshold_min(name).num
    THEN threshold_min(name).num
    ELSE Collected(name).lo

\* The values drawn for the metric whose samples vary: the ends of its
\* range, and the values at and just beyond each threshold and just beyond
\* each severity boundary (0.8 * min, 1.2 * max) that its range holds.
Samples(name) ==
    LET lo == Collected(name).lo
        hi == Collected(name).hi
        tmin == threshold_min(name)
        tmax == threshold_max(name)
        candidates ==
            {lo, hi}
              \cup (IF tmin = PyNone THEN {}
                    ELSE {tmin.num, tmin.num - 1, (8 * tmin.num) \div 10 - 1})
              \cup (IF tmax \in {PyNone, Inf} THEN {}
                    ELSE {tmax.num, tmax.num + 1,
                          (12 * tmax.num) \div 10 + 1})
    IN  {v \in candidates : lo <= v /\ v <= hi}

\* The `metrics` dicts a collector may build in one iteration.
MetricsDicts(collector, which) ==
    LET names == {CollectedMetrics[collector][k].name : k \in 1..6}
    IN  { [name \in names |-> IF name = which THEN v ELSE Typical(name)] :
            v \in IF which \in names THEN Samples(which) ELSE {0} }

\* No alert is being handled.
NoAlert == [name |-> None, second |-> 0]

\* The task of a coroutine, created at time `at` (tenths of a second) and
\* not run yet.
NewCoroutine(at) ==
    [ pos |-> "created", wake |-> at, since |-> at, timestamp |-> at,
      iterations |-> 0, k |-> 0, a |-> 0, alert |-> NoAlert,
      drawn |-> << >> ]

\* The history of a metric after `count` iterations of its collector that
\* drew the typical value, the first at time 0.
TypicalHistory(name, count, interval) ==
    [t \in 1..count |->
        PerformanceMetric(name, Typical(name), (t - 1) * 10 * interval)]

\* A monitor whose collector `collector` has run `count` iterations, none
\* of which raised an alert; monitoring_active as start_monitoring sets it.
MonitorAfter(collector, count) ==
    LET names == IF count = 0 THEN {}
                 ELSE {CollectedMetrics[collector][k].name : k \in 1..6}
        interval == monitoring_config[collector].collection_interval
    IN  [ monitoring_active |-> TRUE,
          metrics_history |->
              [name \in names |-> TypicalHistory(name, count, interval)],
          current_metrics |->
              [name \in names |->
                  TypicalHistory(name, count, interval)[count]],
          alerts |-> {},
          system_health_score |-> [num |-> 1, den |-> 1] ]

\* One collector runs on a monitor: a new one, or one whose histories are
\* one entry short of their limit.
InitCollect ==
    /\ \E c \in CollectorNames, k \in 1..6, full \in BOOLEAN :
          LET count == IF full THEN history_limit(c) - 1 ELSE 0
              interval == monitoring_config[c].collection_interval
          IN
          /\ monitor = MonitorAfter(c, count)
          /\ coroutines = [x \in {c} |-> NewCoroutine(count * 10 * interval)]
          /\ varied = CollectedMetrics[c][k].name
    /\ gather = "not_called"
    /\ executions = << >>
    /\ OrchestratorAtRest
    /\ NoConstruction
    /\ NoEnhancedRun
    /\ NoMcpServer
    /\ NoStandaloneAgent
    /\ NoMemoryCall
    /\ NoSimpleMonitor

\* The tasks in the order start_monitoring creates them.
Tasks ==
    Collectors \o <<"analyze_performance_trends", "detect_anomalies",
                    "execute_optimizations", "update_system_health_score">>

CreationIndex(c) == CHOOSE t \in 1..Len(Tasks) : Tasks[t] = c

\* The event loop resumes task c before task d: its sleep ends earlier; of
\* two sleeps that end together the one entered first ends first; and
\* tasks that suspended together are in the order they ran in, which goes
\* back to the order of their creation.
Before(c, d) ==
    LET x == coroutines[c]
        y == coroutines[d]
    IN  \/ x.wake < y.wake
        \/ x.wake = y.wake /\ x.since < y.since
        \/ x.wake = y.wake /\ x.since = y.since
              /\ CreationIndex(c) < CreationIndex(d)

\* Task c is the one the event loop resumes next.
Due(c) ==
    /\ coroutines[c].pos # "exited"
    /\ \A d \in DOMAIN coroutines \ {c} :
          coroutines[d].pos = "exited" \/ Before(c, d)

\* A loop that never tests the flag.
while_true(mon) == TRUE

\* while self.monitoring_active:
loop_test(mon) == mon.monitoring_active

\* A collector is resumed at `while self.monitoring_active:` (when its task
\* first runs, or when the sleep that ends an iteration is over): it
\* returns, or runs an iteration up to its next suspension.
CollectorIteration ==
    /\ \E c \in DOMAIN coroutines \cap CollectorNames :
          LET co == coroutines[c]
          IN  /\ co.pos \in {"created", "sleeping"}
              /\ Due(c)
              /\ IF ~loop_test(monitor)
                 THEN /\ coroutines' =
                            [coroutines EXCEPT ![c].pos = "exited"]
                      /\ UNCHANGED monitor
                 ELSE /\ co.iterations < MaxCollections
                      /\ \E metrics \in MetricsDicts(c, varied) :
                            LET r == run_collector(monitor, c,
                                        [co EXCEPT
                                            !.timestamp = co.wake,
                                            !.iterations = @ + 1,
                                            !.drawn = metrics], 1)
                            IN  /\ monitor' = r.monitor
                                /\ coroutines' =
                                      [coroutines EXCEPT ![c] = r.co]
    /\ UNCHANGED <<gather, executions, varied>>
    /\ UNCHANGED frameOfSpecMonitor

\* The sleep of _execute_optimization_action is over in a collector's
\* _handle_alert: random.random() < action["success_rate"] decides.
CollectorActionReturns ==
    /\ \E c \in DOMAIN coroutines \cap CollectorNames, success \in BOOLEAN :
          LET co == coroutines[c]
              alert == handled_alert(monitor, co)
              r == resume_collector(monitor, c, co, success)
          IN  /\ co.pos = "executing"
              /\ Due(c)
              /\ monitor' = r.monitor
              /\ coroutines' = [coroutines EXCEPT ![c] = r.co]
              /\ executions' =
                    Append(executions,
                           [ by |-> alert.id,
                             action |-> alert.recommended_actions[co.a],
                             success |-> success ])
    /\ UNCHANGED <<gather, varied>>
    /\ UNCHANGED frameOfSpecMonitor

\* stop_monitoring
StopMonitoring ==
    /\ monitor.monitoring_active
    /\ monitor' = [monitor EXCEPT !.monitoring_active = FALSE]
    /\ UNCHANGED <<coroutines, gather, executions, varied>>
    /\ UNCHANGED frameOfSpecMonitor

NextCollect ==
    \/ CollectorIteration
    \/ CollectorActionReturns
    \/ StopMonitoring

SpecCollect == InitCollect /\ [][NextCollect]_allVars

\* The collector whose dict holds the metric.
CollectorOf(name) ==
    CHOOSE c \in CollectorNames :
        \E k \in 1..6 : CollectedMetrics[c][k].name = name

\* C27: at every point where a collector is suspended, the history of each
\* metric holds at most retention_period // collection_interval entries of
\* the metric's collector and current_metrics holds the newest entry of the
\* history; and a step that changes a history appends one entry to it, and
\* drops its oldest entry exactly when the limit would be exceeded.
C27_HistoryIsBoundedAndCurrentIsNewest ==
    /\ [](\A name \in DOMAIN monitor.metrics_history :
            LET history == monitor.metrics_history[name]
            IN  /\ Len(history) <= history_limit(CollectorOf(name))
                /\ history # << >>
                /\ name \in DOMAIN monitor.current_metrics
                /\ monitor.current_metrics[name] = history[Len(history)])
    /\ [][\A name \in DOMAIN monitor.metrics_history' :
            LET old == IF name \in DOMAIN monitor.metrics_history
                       THEN monitor.metrics_history[name] ELSE << >>
                new == monitor.metrics_history'[name]
                newest == new[Len(new)]
            IN  new # old =>
                   new = IF Len(old) < history_limit(CollectorOf(name))
                         THEN Append(old, newest)
                         ELSE Append(Tail(old), newest)]_allVars

\* A history at its limit has lost its first entry (the one of time 0), and
\* the newest entry, which violates a threshold, is the current metric.
C27_Witness ==
    \E name \in DOMAIN monitor.metrics_history :
        LET history == monitor.metrics_history[name]
            collector == monitoring_config[CollectorOf(name)]
        IN  /\ Len(history) = history_limit(CollectorOf(name))
            /\ history[1].timestamp = 10 * collector.collection_interval
            /\ name = varied
            /\ below_min(history[Len(history)])
            /\ monitor.current_metrics[name] = history[Len(history)]

\* The value is below the metric's minimum threshold or above its maximum
\* threshold.
ViolatesThreshold(name, value) ==
    /\ name \in DOMAIN performance_thresholds
    /\ LET t == performance_thresholds[name]
       IN  \/ value < t.min.num
           \/ t.max # Inf /\ value > t.max.num

\* The calls of _execute_optimization_action made for the alert, in order.
ExecutedFor(alert) ==
    SelectSeq(executions, LAMBDA e : e.by = alert.id)

optimization_rules ==
    << [ name |-> "performance_degradation",
         conditions |->
            << [metric |-> "efficiency_score", operator |-> "lt",
                value |-> 700],
               [metric |-> "success_rate", operator |-> "lt", value |-> 850],
               [trend |-> "declining"] >>,
         actions |-> <<"redistribute_tasks", "scale_resources",
                       "optimize_algorithms", "alert_administrators">> ],
       [ name |-> "revenue_optimization",
         conditions |->
            << [metric |-> "conversion_rate", operator |-> "lt",
                value |-> 120],
               [metric |-> "daily_revenue", operator |-> "lt",
                value |-> 2500],
               [trend |-> "declining"] >>,
         actions |-> <<"adjust_pricing_strategy",
                       "enhance_lead_qualification",
                       "optimize_proposal_generation",
                       "escalate_to_revenue_team">> ],
       [ name |-> "system_overload",
         conditions |->
            << [metric |-> "cpu_utilization", operator |-> "gt",
                value |-> 900],
               [metric |-> "memory_usage", operator |-> "gt", value |-> 850],
               [metric |-> "queue_depth", operator |-> "gt", value |-> 150] >>,
         actions |-> <<"scale_out_instances", "enable_load_balancing",
                       "throttle_incoming_requests",
                       "emergency_resource_allocation">> ],
       [ name |-> "communication_bottleneck",
         conditions |->
            << [metric |-> "message_throughput", operator |-> "lt",
                value |-> 30],
               [metric |-> "average_response_time", operator |-> "gt",
                value |-> 10],
               [metric |-> "delivery_success_rate", operator |-> "lt",
                value |-> 900] >>,
         actions |-> <<"optimize_message_routing",
                       "increase_communication_bandwidth",
                       "implement_message_prioritization",
                       "restart_communication_services">> ] >>

\* One condition of a rule; `trend` is random.random() < 0.3.
condition_met(mon, condition, trend) ==
    IF "metric" \in DOMAIN condition
    THEN /\ condition.metric \in DOMAIN mon.current_metrics
         /\ LET current_value == mon.current_metrics[condition.metric].value
            IN  \/ condition.operator = "lt" /\ current_value < condition.value
                \/ condition.operator = "gt" /\ current_value > condition.value
                \/ condition.operator = "eq" /\ current_value = condition.value
    ELSE "trend" \in DOMAIN condition /\ trend

\* _check_optimization_conditions:
\*   return conditions_met >= len(conditions) * 0.5
check_optimization_conditions(mon, conditions, trend) ==
    LET conditions_met ==
            Cardinality({t \in 1..Len(conditions) :
                            condition_met(mon, conditions[t], trend)})
    IN  2 * conditions_met >= Len(conditions)

\* The for loop of _execute_optimizations from the r-th rule on, until the
\* coroutine suspends: in _execute_optimization_action's sleep or in the
\* sleep that ends the iteration.
RECURSIVE run_optimizations(_, _, _)
run_optimizations(mon, co, r) ==
    IF r > Len(optimization_rules)
    THEN suspend([co EXCEPT !.drawn = << >>], "sleeping", 10 * 30)
    ELSE LET rule == optimization_rules[r]
             a == IF check_optimization_conditions(mon, rule.conditions,
                                                   co.drawn[r])
                  THEN next_registered(rule.actions, 1)
                  ELSE 0
         IN  IF a = 0
             THEN run_optimizations(mon, co, r + 1)
             ELSE suspend([co EXCEPT !.k = r, !.a = a], "executing",
                          execution_sleep(rule.actions[a]))

\* _execute_optimizations resumes from _execute_optimization_action, which
\* returns `success`: it breaks, or goes on to the rule's next action; then
\* the for loop goes on.
resume_optimizations(mon, co, success) ==
    LET rule == optimization_rules[co.k]
        a == IF success THEN 0 ELSE next_registered(rule.actions, co.a + 1)
    IN  IF a = 0
        THEN run_optimizations(mon, co, co.k + 1)
        ELSE suspend([co EXCEPT !.a = a], "executing",
                     execution_sleep(rule.actions[a]))

\* The outcomes of random.random() < 0.3 for the rules of one iteration.
TrendDraws ==
    { f \in [1..Len(optimization_rules) -> BOOLEAN] :
        \A r \in 1..Len(optimization_rules) :
            f[r] => \E t \in 1..Len(optimization_rules[r].conditions) :
                        "trend" \in DOMAIN optimization_rules[r].conditions[t] }

\* health_components, the weights in hundredths.
health_components ==
    [ task_completion_rate |-> 20, success_rate |-> 20,
      efficiency_score |-> 15, conversion_rate |-> 15,
      cpu_utilization |-> 10, memory_usage |-> 10,
      delivery_success_rate |-> 10 ]

\* The normalised score of a component, in thousandths:
\*   max(0, 1 - value) for cpu_utilization and memory_usage,
\*   min(1.0, value / max_val) for the others.
component_score(name, value) ==
    IF name \in {"cpu_utilization", "memory_usage"}
    THEN IF 1000 - value > 0 THEN 1000 - value ELSE 0
    ELSE Min(1000, (1000 * value) \div threshold_max(name).num)

RECURSIVE WeightedSum(_, _)
WeightedSum(mon, names) ==
    IF names = {} THEN [num |-> 0, den |-> 0]
    ELSE LET name == CHOOSE x \in names : TRUE
             rest == WeightedSum(mon, names \ {name})
         IN  [ num |-> rest.num + health_components[name]
                          * component_score(name,
                                mon.current_metrics[name].value),
               den |-> rest.den + health_components[name] ]

\* One iteration of _update_system_health_score: total_score over
\* total_weight, kept as the fraction num / (1000 * den).
update_system_health_score(mon) ==
    LET sums == WeightedSum(mon, DOMAIN health_components
                                    \cap DOMAIN mon.current_metrics)
    IN  IF DOMAIN mon.current_metrics # {} /\ sums.den > 0
        THEN [mon EXCEPT !.system_health_score = sums]
        ELSE mon

\* RealTimePerformanceMonitor.__init__
NewMonitor ==
    [ monitoring_active |-> FALSE, metrics_history |-> << >>,
      current_metrics |-> << >>, alerts |-> {},
      system_health_score |-> [num |-> 1, den |-> 1] ]

\* The metrics of which one is drawn over its whole range in a run of the
\* whole monitor.
VariedInMonitor == MetricNames

\* A monitor has been constructed.
InitMonitor ==
    /\ monitor = NewMonitor
    /\ coroutines = << >>
    /\ gather = "not_called"
    /\ executions = << >>
    /\ varied \in VariedInMonitor
    /\ OrchestratorAtRest
    /\ NoConstruction
    /\ NoEnhancedRun
    /\ NoMcpServer
    /\ NoStandaloneAgent
    /\ NoMemoryCall
    /\ NoSimpleMonitor

\* start_monitoring, up to `await asyncio.gather(*tasks)`.
StartMonitoring ==
    /\ gather = "not_called"
    /\ monitor' = [monitor EXCEPT !.monitoring_active = TRUE]
    /\ coroutines' = [c \in {Tasks[t] : t \in 1..Len(Tasks)} |->
                         NewCoroutine(0)]
    /\ gather' = "gathering"
    /\ UNCHANGED <<executions, varied>>
    /\ UNCHANGED frameOfSpecMonitor

\* _analyze_performance_trends and _detect_anomalies are resumed at their
\* loop test. They look only at histories of 10 (20) entries or more, of
\* which a run of MaxCollections iterations has none, and sleep 120 (60)
\* seconds.
AnalyserIteration ==
    /\ \E c \in DOMAIN coroutines
                 \cap {"analyze_performance_trends", "detect_anomalies"} :
          LET co == coroutines[c]
          IN  /\ co.pos \in {"created", "sleeping"}
              /\ Due(c)
              /\ \A name \in DOMAIN monitor.metrics_history :
                    Len(monitor.metrics_history[name]) < 10
              /\ IF ~loop_test(monitor)
                 THEN coroutines' = [coroutines EXCEPT ![c].pos = "exited"]
                 ELSE /\ co.iterations < MaxCollections
                      /\ coroutines' =
                            [coroutines EXCEPT ![c] =
                                suspend([co EXCEPT !.iterations = @ + 1],
                                   "sleeping",
                                   IF c = "analyze_performance_trends"
                                   THEN 10 * 120 ELSE 10 * 60)]
    /\ UNCHANGED <<monitor, gather, executions, varied>>
    /\ UNCHANGED frameOfSpecMonitor

\* _execute_optimizations is resumed at its loop test.
OptimizationsIteration ==
    /\ "execute_optimizations" \in DOMAIN coroutines
    /\ LET co == coroutines["execute_optimizations"]
       IN  /\ co.pos \in {"created", "sleeping"}
           /\ Due("execute_optimizations")
           /\ IF ~loop_test(monitor)
              THEN coroutines' =
                      [coroutines EXCEPT
                          !["execute_optimizations"].pos = "exited"]
              ELSE /\ co.iterations < MaxCollections
                   /\ \E trends \in TrendDraws :
                         coroutines' =
                            [coroutines EXCEPT !["execute_optimizations"] =
                                run_optimizations(monitor,
                                    [co EXCEPT !.iterations = @ + 1,
                                               !.drawn = trends], 1)]
    /\ UNCHANGED <<monitor, gather, executions, varied>>
    /\ UNCHANGED frameOfSpecMonitor

\* The sleep of _execute_optimization_action is over in
\* _execute_optimizations.
OptimizationsActionReturns ==
    /\ "execute_optimizations" \in DOMAIN coroutines
    /\ \E success \in BOOLEAN :
          LET co == coroutines["execute_optimizations"]
              rule == optimization_rules[co.k]
          IN  /\ co.pos = "executing"
              /\ Due("execute_optimizations")
              /\ coroutines' =
                    [coroutines EXCEPT !["execute_optimizations"] =
                        resume_optimizations(monitor, co, success)]
              /\ executions' =
                    Append(executions,
                           [ by |-> [name |-> rule.name,
                                     second |-> co.since \div 10],
                             action |-> rule.actions[co.a],
                             success |-> success ])
    /\ UNCHANGED <<monitor, gather, varied>>
    /\ UNCHANGED frameOfSpecMonitor

\* _update_system_health_score is resumed at its loop test.
HealthIteration ==
    /\ "update_system_health_score" \in DOMAIN coroutines
    /\ LET co == coroutines["update_system_health_score"]
       IN  /\ co.pos \in {"created", "sleeping"}
           /\ Due("update_system_health_score")
           /\ IF ~loop_test(monitor)
              THEN /\ coroutines' =
                         [coroutines EXCEPT
                             !["update_system_health_score"].pos = "exited"]
                   /\ UNCHANGED monitor
              ELSE /\ co.iterations < MaxCollections
                   /\ monitor' = update_system_health_score(monitor)
                   /\ coroutines' =
                         [coroutines EXCEPT
                             !["update_system_health_score"] =
                                suspend([co EXCEPT !.iterations = @ + 1],
                                        "sleeping", 10 * 30)]
    /\ UNCHANGED <<gather, executions, varied>>
    /\ UNCHANGED frameOfSpecMonitor

\* asyncio.gather returns once every task is done, and start_monitoring
\* returns with it.
GatherReturns ==
    /\ gather = "gathering"
    /\ \A c \in DOMAIN coroutines : coroutines[c].pos = "exited"
    /\ gather' = "returned"
    /\ UNCHANGED <<monitor, coroutines, executions, varied>>
    /\ UNCHANGED frameOfSpecMonitor

NextMonitor ==
    \/ StartMonitoring
    \/ CollectorIteration
    \/ CollectorActionReturns
    \/ AnalyserIteration
    \/ OptimizationsIteration
    \/ OptimizationsActionReturns
    \/ HealthIteration
    \/ GatherReturns
    \/ StopMonitoring

SpecMonitor == InitMonitor /\ [][NextMonitor]_allVars

\* What the event loop does: it resumes the task that is due, and gather
\* returns when the tasks are done.
EventLoop ==
    \/ CollectorIteration
    \/ CollectorActionReturns
    \/ AnalyserIteration
    \/ OptimizationsIteration
    \/ OptimizationsActionReturns
    \/ HealthIteration
    \/ GatherReturns

\* The event loop keeps running: a task whose sleep is over is resumed.
\* Nothing obliges anyone to call start_monitoring or stop_monitoring.
FairSpecMonitor == SpecMonitor /\ WF_allVars(EventLoop)

\* stop_monitoring has been called while start_monitoring awaits its tasks.
Stopped == gather = "gathering" /\ ~monitor.monitoring_active

\* C29: once stop_monitoring has cleared monitoring_active, no coroutine
\* begins an iteration; a coroutine suspended inside an iteration goes on
\* with it and does not return before it reaches the end of the iteration;
\* a coroutine that has returned stays so; start_monitoring returns only
\* when the eight coroutines have returned; and, the event loop resuming
\* every task whose sleep is over, start_monitoring does return.
C29_StoppedMonitorWindsDown ==
    /\ [][\A c \in DOMAIN coroutines \cap DOMAIN coroutines' :
             LET co == coroutines[c]
                 next == coroutines'[c]
             IN  /\ ~monitor.monitoring_active =>
                       next.iterations = co.iterations
                 /\ (~monitor.monitoring_active /\ co.pos = "executing") =>
                       next.pos \in {"executing", "sleeping"}
                 /\ (~monitor.monitoring_active /\ next # co
                         /\ co.pos \in {"created", "sleeping"}) =>
                       next.pos = "exited"
                 /\ co.pos = "exited" => next = co]_allVars
    /\ [](gather = "returned" =>
             /\ DOMAIN coroutines = {Tasks[t] : t \in 1..Len(Tasks)}
             /\ \A c \in DOMAIN coroutines : coroutines[c].pos = "exited")
    /\ Stopped ~> (gather = "returned")

\* start_monitoring has returned after a run in which every collector
\* collected, an alert was auto-resolved and an optimization rule executed
\* an action.
C29_Witness ==
    /\ gather = "returned"
    /\ \A c \in CollectorNames : coroutines[c].iterations >= 1
    /\ \E alert \in monitor.alerts : alert.auto_resolved
    /\ \E t \in 1..Len(executions) :
          \E r \in 1..Len(optimization_rules) :
             executions[t].by.name = optimization_rules[r].name


\* ---------------------------------------------------- SimpleClaudeMonitor
\* The threads that call track_request on one monitor, and the calls each
\* of them makes at most.
MaxThreads == 2
MaxCalls == 2

Threads == 1..MaxThreads

\* The arguments of a call: the defaults of track_request, and those of
\* track_usage. The cost is in cents.
TrackedCalls ==
    { [tool_name |-> "unknown", tokens |-> 0, cost |-> 0],
      [tool_name |-> "claude", tokens |-> 1000, cost |-> 1] }

TrackedTools == {c.tool_name : c \in TrackedCalls}

\* A lock that never makes a thread wait.
not_locked_at_all(holder) == TRUE

\* threading.Lock: acquire goes through when no thread holds the lock.
not_locked(holder) == holder = 0

\* A thread that is in no call.
IdleThread ==
    [ pc |-> "idle", tool_name |-> None, tokens |-> 0, cost |-> 0,
      counter |-> 0, tmp |-> 0, done |-> 0, waited |-> FALSE ]

\* The three counters track_request adds to, in its order, each with the
\* amount a call adds.
Counters == <<"total_requests", "total_tokens", "estimated_cost">>

Amount(th, counter) ==
    CASE counter = "total_requests" -> 1
      [] counter = "total_tokens" -> th.tokens
      [] counter = "estimated_cost" -> th.cost

\* SimpleClaudeMonitor.__init__; claude_usage.db is new, or holds a row of
\* an earlier session.
InitTrack ==
    /\ usage_stats = [ total_requests |-> 0, total_tokens |-> 0,
                       estimated_cost |-> 0, tools_used |-> << >> ]
    /\ tool_usage \in { << >>,
                        <<[tool_name |-> "claude", usage_count |-> 3]>> }
    /\ lock = 0
    /\ threads = [t \in Threads |-> IdleThread]
    /\ tracked = [before |-> tool_usage,
                  returned |-> [name \in TrackedTools |-> 0]]
    /\ OrchestratorAtRest
    /\ NoConstruction
    /\ NoEnhancedRun
    /\ NoMcpServer
    /\ NoStandaloneAgent
    /\ NoMemoryCall
    /\ NoMonitor

\* A thread calls track_request(tool_name, tokens, cost).
TrackRequest ==
    /\ \E t \in Threads, c \in TrackedCalls :
          /\ threads[t].pc = "idle"
          /\ threads[t].done < MaxCalls
          /\ threads' = [threads EXCEPT ![t].pc = "acquire",
                                        ![t].tool_name = c.tool_name,
                                        ![t].tokens = c.tokens,
                                        ![t].cost = c.cost]
    /\ UNCHANGED <<usage_stats, tool_usage, lock, tracked>>
    /\ UNCHANGED frameOfSpecTrack

\* with self.lock:   (entering)
Acquire ==
    /\ \E t \in Threads :
          /\ threads[t].pc = "acquire"
          /\ not_locked(lock)
          /\ lock' = t
          /\ threads' =
                [u \in Threads |->
                    IF u = t
                    THEN [threads[u] EXCEPT !.pc = "load", !.counter = 1]
                    ELSE IF threads[u].pc = "acquire"
                    THEN [threads[u] EXCEPT !.waited = TRUE]
                    ELSE threads[u]]
    /\ UNCHANGED <<usage_stats, tool_usage, tracked>>
    /\ UNCHANGED frameOfSpecTrack


\* self.usage_stats[counter] += amount, first half: the value is read.
LoadCounter ==
    /\ \E t \in Threads :
          /\ threads[t].pc = "load"
          /\ threads' =
                [threads EXCEPT
                    ![t].pc = "store",
                    ![t].tmp = usage_stats[Counters[threads[t].counter]]]
    /\ UNCHANGED <<usage_stats, tool_usage, lock, tracked>>
    /\ UNCHANGED frameOfSpecTrack

\* self.usage_stats[counter] += amount, second half: the sum is stored.
StoreCounter ==
    /\ \E t \in Threads :
          LET th == threads[t]
              counter == Counters[th.counter]
          IN  /\ th.pc = "store"
              /\ usage_stats' =
                    [usage_stats EXCEPT
                        ![counter] = th.tmp + Amount(th, counter)]
              /\ threads' =
                    [threads EXCEPT
                        ![t].pc = IF th.counter < Len(Counters)
                                  THEN "load" ELSE "test_tool",
                        ![t].counter = @ + 1]
    /\ UNCHANGED <<tool_usage, lock, tracked>>
    /\ UNCHANGED frameOfSpecTrack

\* if tool_name in self.usage_stats["tools_used"]: ... else:
\*     self.usage_stats["tools_used"][tool_name] = 1
TestTool ==
    /\ \E t \in Threads :
          LET th == threads[t]
          IN  /\ th.pc = "test_tool"
              /\ IF th.tool_name \in DOMAIN usage_stats.tools_used
                 THEN /\ threads' = [threads EXCEPT ![t].pc = "load_tool"]
                      /\ UNCHANGED usage_stats
                 ELSE /\ threads' = [threads EXCEPT ![t].pc = "select"]
                      /\ usage_stats' =
                            [usage_stats EXCEPT
                                !.tools_used = dict_put(@, th.tool_name, 1)]
    /\ UNCHANGED <<tool_usage, lock, tracked>>
    /\ UNCHANGED frameOfSpecTrack

\* self.usage_stats["tools_used"][tool_name] += 1, first half
LoadTool ==
    /\ \E t \in Threads :
          /\ threads[t].pc = "load_tool"
          /\ threads' =
                [threads EXCEPT
                    ![t].pc = "store_tool",
                    ![t].tmp = usage_stats.tools_used[threads[t].tool_name]]
    /\ UNCHANGED <<usage_stats, tool_usage, lock, tracked>>
    /\ UNCHANGED frameOfSpecTrack

\* self.usage_stats["tools_used"][tool_name] += 1, second half
StoreTool ==
    /\ \E t \in Threads :
          LET th == threads[t]
          IN  /\ th.pc = "store_tool"
              /\ usage_stats' =
                    [usage_stats EXCEPT
                        !.tools_used = dict_put(@, th.tool_name, th.tmp + 1)]
              /\ threads' = [threads EXCEPT ![t].pc = "select"]
    /\ UNCHANGED <<tool_usage, lock, tracked>>
    /\ UNCHANGED frameOfSpecTrack

\* The rows of tool_usage WHERE tool_name = ?
RowsOf(rows, tool_name) ==
    {r \in 1..Len(rows) : rows[r].tool_name = tool_name}

\* SELECT usage_count FROM tool_usage WHERE tool_name = ?
\* existing = cursor.fetchone();  if existing: ... else: ...
Select ==
    /\ \E t \in Threads :
          LET th == threads[t]
          IN  /\ th.pc = "select"
              /\ threads' =
                    [threads EXCEPT
                        ![t].pc = IF RowsOf(tool_usage, th.tool_name) # {}
                                  THEN "update" ELSE "insert"]
    /\ UNCHANGED <<usage_stats, tool_usage, lock, tracked>>
    /\ UNCHANGED frameOfSpecTrack

\* UPDATE tool_usage SET usage_count = usage_count + 1 WHERE tool_name = ?
Update ==
    /\ \E t \in Threads :
          LET th == threads[t]
          IN  /\ th.pc = "update"
              /\ tool_usage' =
                    [r \in 1..Len(tool_usage) |->
                        IF tool_usage[r].tool_name = th.tool_name
                        THEN [tool_usage[r] EXCEPT !.usage_count = @ + 1]
                        ELSE tool_usage[r]]
              /\ threads' = [threads EXCEPT ![t].pc = "commit"]
    /\ UNCHANGED <<usage_stats, lock, tracked>>
    /\ UNCHANGED frameOfSpecTrack

\* INSERT INTO tool_usage (tool_name, usage_count, last_used)
\*     VALUES (?, 1, CURRENT_TIMESTAMP)
Insert ==
    /\ \E t \in Threads :
          LET th == threads[t]
          IN  /\ th.pc = "insert"
              /\ tool_usage' =
                    Append(tool_usage,
                           [tool_name |-> th.tool_name, usage_count |-> 1])
              /\ threads' = [threads EXCEPT ![t].pc = "commit"]
    /\ UNCHANGED <<usage_stats, lock, tracked>>
    /\ UNCHANGED frameOfSpecTrack

\* self.conn.commit(), the end of the with block, which releases the lock,
\* and the return of track_request.
CommitAndRelease ==
    /\ \E t \in Threads :
          LET th == threads[t]
          IN  /\ th.pc = "commit"
              /\ lock' = 0
              /\ threads' =
                    [threads EXCEPT
                        ![t] = [IdleThread EXCEPT !.done = th.done + 1,
                                                  !.waited = th.waited]]
              /\ tracked' =
                    [tracked EXCEPT !.returned[th.tool_name] = @ + 1]
    /\ UNCHANGED <<usage_stats, tool_usage>>
    /\ UNCHANGED frameOfSpecTrack

NextTrack ==
    \/ TrackRequest
    \/ Acquire
    \/ LoadCounter
    \/ StoreCounter
    \/ TestTool
    \/ LoadTool
    \/ StoreTool
    \/ Select
    \/ Update
    \/ Insert
    \/ CommitAndRelease

SpecTrack == InitTrack /\ [][NextTrack]_allVars

RECURSIVE SumOver(_, _)
SumOver(f, keys) ==
    IF keys = {} THEN 0
    ELSE LET key == CHOOSE x \in keys : TRUE
         IN  f[key] + SumOver(f, keys \ {key})

\* Every call of track_request has returned.
AllReturned == \A t \in Threads : threads[t].pc = "idle"

\* C30: when every call of track_request has returned, total_requests is
\* the number of calls, the counts of tools_used add up to total_requests,
\* tools_used counts the calls of each tool, and tool_usage holds for each
\* tool named in a call one row, whose usage_count is the one it had when
\* the monitor was constructed (0 when it had no row) plus the number of
\* calls that named the tool.
C30_NoTrackedRequestIsLost ==
    AllReturned =>
       /\ usage_stats.total_requests =
             SumOver([t \in Threads |-> threads[t].done], Threads)
       /\ usage_stats.total_requests = SumOver(tracked.returned, TrackedTools)
       /\ SumOver(usage_stats.tools_used, DOMAIN usage_stats.tools_used)
             = usage_stats.total_requests
       /\ \A name \in TrackedTools :
             LET before == RowsOf(tracked.before, name)
                 rows == RowsOf(tool_usage, name)
                 calls == tracked.returned[name]
             IN  /\ calls > 0 =>
                       /\ name \in DOMAIN usage_stats.tools_used
                       /\ usage_stats.tools_used[name] = calls
                       /\ Cardinality(rows) = 1
                 /\ \A r \in rows :
                       tool_usage[r].usage_count =
                          calls + IF r \in before
                                  THEN tracked.before[r].usage_count ELSE 0

\* Both threads have made two calls each, one of them after waiting for
\* the lock, for a tool that had a row and for one that had none.
C30_Witness ==
    /\ AllReturned
    /\ \A t \in Threads : threads[t].done = 2
    /\ \E t \in Threads : threads[t].waited
    /\ tracked.before # << >>
    /\ \A name \in TrackedTools : tracked.returned[name] > 0

=============================================================================
